---- MODULE Spec2Model ----
(***************************************************************************)
(* SparkBox station core: the AI job scheduler (tasks/talk/ai_manager.py), *)
(* the Solution adapter's memory (tasks/talk/mentor_module.py), the event  *)
(* bus and HTTP surface (tasks/ui_output/web_manager.py) and the GPIO      *)
(* arbiter of the supervisor (src/main_arm.py).                            *)
(*                                                                         *)
(* Conventions.                                                            *)
(*  - Python None is the number 0 (None); a result, a solution or a text   *)
(*    is identified by the id of the job thread that produced it.          *)
(*  - Time is counted in ticks of 0.5 s.  The code compares                *)
(*    time.time() - last_x_time with a period; the model keeps that        *)
(*    difference (x_elapsed), saturated at the period it is compared with. *)
(*  - Event messages that are Chinese literals in the source are written   *)
(*    as ASCII tags, one tag per literal:                                  *)
(*      "zh:analysing-image"      main_arm.py:328                          *)
(*      "zh:snapshot-failed"      main_arm.py:340                          *)
(*      "zh:system-busy"          main_arm.py:315                          *)
(*      "zh:ai-busy-snapshot"     web_manager.py:312                       *)
(*      "zh:ai-busy-chat"         ai_manager.py:312                        *)
(*      "zh:photo-first"          ai_manager.py:318                        *)
(*      "zh:ai-thinking"          ai_manager.py:326                        *)
(*      "zh:ai-reply-failed"      ai_manager.py:354                        *)
(*      "zh:chat-error"           ai_manager.py:359                        *)
(*  - An event's timestamp is not modelled.                                *)
(***************************************************************************)
EXTENDS Integers, Sequences, FiniteSets, TLC

\* Number of job threads (capture or chat) started in one run of the model.
MaxJobs == 2
\* the threads of a run that is followed through a second project
MaxProjectJobs == 3

\* The /stream connections that are open.
MaxSubscribers == 2

\* The page-turn events published in a behaviour of the event bus.
MaxEvents == 3

\* The threads that append to the session log at the same time, and the
\* appends each of them makes.
MaxAppenders == 2
MaxAppends == 2
\* the edges of a button that are followed
MaxEdges == 4
\* the recordings that are followed
MaxRecordings == 3
\* the length of a response body, in tokens
MaxTextLen == 6
\* the camera frames and the POST /api/snapshot requests that are followed
MaxFrames == 2
MaxRequests == 3

\* The frames of the detector: polygon vertices lie on a grid of
\* (GridW + 1) x (GridH + 1) points, CellPx pixels apart, and a frame holds at
\* most MaxContours external contours.
GridW == 1
GridH == 2
CellPx == 80
MaxContours == 1

\* `if area < 5000: continue`
min_contour_area == 5000

\* self.capture_cooldown = 1.0 s, in ticks of 0.5 s.
capture_cooldown == 2
\* self.reset_refractory_period = 2.0 s, in ticks of 0.5 s.
reset_refractory_period == 4

None == 0

VARIABLES
    \* AIManager
    is_processing, status_message,
    last_vision_result, last_solution_result, last_complete_result,
    current_log_path,
    \* the files under logs/ai_logs, and how many session paths were allocated
    log_files, log_seq,
    \* SolutionAgent
    history, conversation_history, current_solution,
    \* WebManager
    latest_status, event_queue,
    \* CameraManager
    latest_raw_frame,
    \* SparkBoxApp
    in_voice_mode, video_release_required,
    capture_elapsed, reset_elapsed,
    \* the job threads started by run_ai_pipeline_async / run_chat_ai_async
    jobs,
    \* Voice2Text.is_recording; the video button's level and GPIOButton._pressed_event
    is_recording, video_pressed, video_latch,
    \* the threads inside _append_log_entries, and the files that are open for
    \* writing and hold no complete JSON document
    appenders, log_torn,
    \* SquareDetector.corners; the contours of the frame the main loop is
    \* processing, whether its detection call is still to come and whether the
    \* last call found a quadrilateral (largest_contour is not None); the
    \* image save_snapshot wrote last
    corners, frame_contours, detecting, quad_found, snapshot_image,
    \* history variables (not program state)
    last_published, press_seq, press_trail, press_elapsed, any_reset_elapsed,
    frozen,
    \* the voice_* events published since the last voice_recording event
    voice_turn,
    \* a poll has started the recorder since the video button last went down
    hold_started,
    \* how many threads the run may start (a bound, fixed by the initial state)
    job_limit,
    \* a GPIOButton: the level of its line (is_pressed), _pressed_event,
    \* whether last_press_time is less than the cooldown ago, and where the
    \* caller of get_press is
    line_pressed, pressed_event, in_cooldown, get_press_pc,
    \* the edges the callback accepted and the polls that returned True
    edges_accepted, edges_reported,
    \* Voice2Text: the recording whose audio is in recorder_file (0: no file),
    \* whether self.frames holds a chunk, how many recordings were started,
    \* the recordings whose transcription is still to be made, and the
    \* recording whose audio the last transcription read (0: none)
    recorder_file, has_frames, recording_no, to_transcribe, transcribed_audio,
    \* the body of an adapter's response, what SolutionAgent._extract_json and
    \* VisionAgent._extract_json_from_text made of it, and which of the two
    \* have run
    response_text, solution_json, vision_json, extracted,
    \* SparkBoxApp.running, where the shutdown thread of /api/quit and the
    \* main thread are, which run of cleanup the main thread is in, and the
    \* shutdown steps performed so far, in order
    running, quit_pc, main_pc, cleanup_round, shutdown_trail,
    \* WebManager: whether camera_manager and ai_manager are set, the frame in
    \* the raw-frame slot (0: None), the codes of the answers
    \* /api/snapshot gave, the frames handed to the
    \* _handle_snapshot_api threads still to run, the frames whose pipeline
    \* was submitted, how many pipelines started and ended, and the events
    \* the threads pushed
    camera_manager, ai_manager, raw_frame_no, api_answers,
    snapshot_threads, snapshot_jobs, pipelines_started, pipelines_ended,
    snapshot_events,
    \* how many threads had been started when the last reset was made
    \* (history variable; 0 before any reset)
    jobs_at_reset,
    \* the events put on the queue; for each /stream connection, how many had
    \* been put when it was opened (-1: not open) and which ones it got
    bus_sent, joined, received

aiVars == <<is_processing, status_message, last_vision_result,
            last_solution_result, last_complete_result, current_log_path>>
logVars == <<log_files, log_seq>>
agentVars == <<history, conversation_history, current_solution>>
webVars == <<latest_status, event_queue>>
appVars == <<in_voice_mode, video_release_required, capture_elapsed, reset_elapsed>>
voiceVars == <<is_recording, video_pressed, video_latch>>
appendVars == <<appenders, log_torn>>
busVars == <<bus_sent, joined, received>>
ghostVars == <<last_published, press_seq, press_trail, press_elapsed,
               any_reset_elapsed, frozen, voice_turn, hold_started,
               job_limit>>
\* the state of the voice, log-append and subscriber parts
detectVars == <<corners, frame_contours, detecting, quad_found, snapshot_image>>
buttonVars == <<line_pressed, pressed_event, in_cooldown, get_press_pc,
                edges_accepted, edges_reported>>
\* the parts added for single components
recorderVars == <<recorder_file, has_frames, recording_no, to_transcribe,
                  transcribed_audio>>
extractVars == <<response_text, solution_json, vision_json, extracted>>
shutdownVars == <<running, quit_pc, main_pc, cleanup_round, shutdown_trail>>
snapshotVars == <<camera_manager, ai_manager, raw_frame_no, api_answers,
                  snapshot_threads, snapshot_jobs, pipelines_started,
                  pipelines_ended, snapshot_events>>
auxVars == <<buttonVars, recorderVars, extractVars, shutdownVars, snapshotVars,
             jobs_at_reset>>
\* the same parts without the history of resets
offResetVars == <<voiceVars, appendVars, busVars, detectVars, hold_started, job_limit,
                  buttonVars, recorderVars, extractVars, shutdownVars, snapshotVars>>
extVars == <<voiceVars, appendVars, busVars, detectVars, hold_started, job_limit, auxVars>>
\* everything the program itself holds
programVars == <<aiVars, logVars, agentVars, webVars, latest_raw_frame, appVars, jobs,
                 voiceVars, appendVars, detectVars>>
vars == <<programVars, ghostVars, busVars, auxVars>>

JobIds == 1..MaxJobs

Subscribers == 1..MaxSubscribers

AppenderIds == 1..MaxAppenders

Event(state, message, data) == [state |-> state, message |-> message, data |-> data]

ReadyStatus == Event("ready", "System Ready", "None")

\* "no event was published yet" (history variable last_published)
NoEvent == Event("none", "none", "None")

Min(a, b) == IF a < b THEN a ELSE b

Last(s) == s[Len(s)]

\* the last two elements of a sequence
LastTwo(s) == IF Len(s) <= 2 THEN s ELSE SubSeq(s, Len(s) - 1, Len(s))

----------------------------------------------------------------------------
(* Pure reads *)

\* AIManager.is_busy
is_busy == is_processing

\* AIManager.has_result is read by handle_gpio and defined nowhere under
\* src/; modelled as "a complete project is stored" (what /api/result serves).
has_result == last_complete_result # None

\* GET /api/status
api_status ==
    [state |-> IF is_processing THEN "processing" ELSE "ready",
     message |-> status_message]

\* GET /api/result: the stored complete result, or the no-results sentinel.
api_result ==
    IF last_complete_result # None
    THEN [error |-> "None", result |-> last_complete_result]
    ELSE [error |-> "No results available", result |-> None]

\* A job thread that is executing run_ai_pipeline / run_chat_ai past its
\* admission (its first statement that sets is_processing).
Running(j) == jobs[j].pc \in {"vision", "solution", "preview", "reply"}

RunningJobs == {j \in 1..Len(jobs) : Running(j)}

----------------------------------------------------------------------------
(* Initial state: after SparkBoxApp.__init__ *)

\* the state after construction, for a run of at most limit threads
InitFor(limit) ==
    /\ job_limit = limit
    /\ line_pressed = FALSE
    /\ pressed_event = FALSE
    /\ in_cooldown = FALSE
    /\ get_press_pc = "idle"
    /\ edges_accepted = 0
    /\ edges_reported = 0
    /\ recorder_file \in {0}
    /\ has_frames = FALSE
    /\ recording_no = 0
    /\ to_transcribe = {}
    /\ transcribed_audio = 0
    /\ solution_json = <<>>
    /\ vision_json = [kind |-> "none", body |-> <<>>]
    /\ extracted = {}
    /\ is_processing = FALSE
    /\ status_message = "Ready"
    /\ last_vision_result = None
    /\ last_solution_result = None
    /\ last_complete_result = None
    /\ current_log_path = None
    /\ log_files = [p \in 1..limit |-> <<>>]
    /\ log_seq = 0
    /\ history = <<>>
    /\ conversation_history = <<>>
    /\ current_solution = None
    /\ latest_status = ReadyStatus
    /\ event_queue = <<>>
    /\ latest_raw_frame = FALSE
    /\ in_voice_mode = FALSE
    /\ video_release_required = FALSE
    \* last_capture_time = last_reset_time = 0 and time.time() is the epoch time
    /\ capture_elapsed = capture_cooldown
    /\ reset_elapsed = reset_refractory_period
    /\ jobs = <<>>
    /\ last_published = NoEvent
    /\ press_seq = 0
    /\ press_trail = <<>>
    /\ press_elapsed = capture_cooldown
    /\ any_reset_elapsed = reset_refractory_period
    /\ frozen = {}
    /\ is_recording = FALSE
    /\ video_pressed = FALSE
    /\ video_latch = FALSE
    /\ appenders = [a \in AppenderIds |-> [pc |-> "idle", log_path |-> None, existing |-> <<>>, done |-> 0]]
    /\ log_torn = [p \in 1..limit |-> FALSE]
    /\ corners = <<>>
    /\ frame_contours = <<>>
    /\ detecting = FALSE
    /\ quad_found = "none"
    /\ snapshot_image = "none"
    /\ voice_turn = <<>>
    /\ hold_started = FALSE
    /\ running = TRUE
    /\ quit_pc = "idle"
    /\ main_pc = "loop"
    /\ cleanup_round = 0
    /\ shutdown_trail = <<>>
    /\ camera_manager = FALSE
    /\ ai_manager = FALSE
    /\ raw_frame_no = None
    /\ api_answers = <<>>
    /\ snapshot_threads = <<>>
    /\ snapshot_jobs = <<>>
    /\ pipelines_started = 0
    /\ pipelines_ended = 0
    /\ snapshot_events = <<>>
    /\ jobs_at_reset = 0
    /\ bus_sent = <<>>
    /\ joined = [s \in Subscribers |-> -1]
    /\ received = [s \in Subscribers |-> <<>>]

Init == InitFor(MaxJobs) /\ response_text = <<>>

----------------------------------------------------------------------------
(* Helpers shared by the handlers *)

\* the voice_* events
VoiceStates ==
    {"voice_recording", "voice_processing", "voice_user", "voice_response",
     "voice_error"}

\* history variable voice_turn after event e: a voice_recording event opens a
\* turn, and the voice_* events that follow belong to it
VoiceTurnStep(t, e) ==
    IF e.state = "voice_recording" THEN <<e>>
    ELSE IF t # <<>> /\ e.state \in VoiceStates THEN Append(t, e)
    ELSE t

RECURSIVE VoiceTurnAfter(_, _)
VoiceTurnAfter(t, evs) ==
    IF evs = <<>> THEN t
    ELSE VoiceTurnAfter(VoiceTurnStep(t, Head(evs)), Tail(evs))

\* WebManager.push_event, for the events one handler step publishes in order.
Publish(evs) ==
    /\ event_queue' = event_queue \o evs
    /\ latest_status' = IF evs = <<>> THEN latest_status ELSE Last(evs)
    /\ last_published' = IF evs = <<>> THEN last_published ELSE Last(evs)
    /\ voice_turn' = VoiceTurnAfter(voice_turn, evs)

\* AIManager.reset_results
reset_results ==
    /\ last_vision_result' = None
    /\ last_solution_result' = None
    /\ last_complete_result' = None
    /\ status_message' = "Ready"
    /\ is_processing' = FALSE

\* a session that writes into the log file already in use
NewLogPath_reused == IF current_log_path # None THEN current_log_path ELSE log_seq + 1

\* AIManager._get_log_file_path via _start_new_log_session: a path made of the
\* current second and six random hex digits, i.e. a path not used before.
NewLogPath == log_seq + 1

\* AIManager._append_log_entries on a path that is already set
AppendedLog(entries) ==
    [log_files EXCEPT ![current_log_path] = @ \o entries]

Turn(role, type, job) == [role |-> role, type |-> type, job |-> job]

\* threading.Thread(target=...).start()
Spawn(kind) ==
    /\ Len(jobs) < job_limit
    /\ jobs' = Append(jobs, [kind |-> kind, pc |-> "spawned"])

\* the log of the project a reset clears, as it is at a reset made while no
\* job is running (history variable frozen)
FrozenAfterReset ==
    IF RunningJobs = {} /\ current_log_path # None
    THEN frozen \cup {<<current_log_path, log_files[current_log_path]>>}
    ELSE frozen

\* SparkBoxApp.handle_snapshot: save_snapshot succeeds (saved) or raises.
handle_snapshot(saved) ==
    /\ in_voice_mode' = FALSE
    /\ IF saved
       THEN /\ Publish(<<Event("processing", "zh:analysing-image", "None")>>)
            /\ Spawn("capture")
       ELSE /\ Publish(<<Event("processing", "zh:analysing-image", "None"),
                         Event("error", "zh:snapshot-failed", "None")>>)
            /\ UNCHANGED jobs

\* a reset event that carries no data
ResetEvent_nodata == Event("control", "Reset", "None")

\* The control event of a reset (main_arm.py:349)
ResetEvent == Event("control", "Reset", "reset")

\* SparkBoxApp.handle_reset
handle_reset ==
    /\ reset_results
    /\ reset_elapsed' = 0
    /\ in_voice_mode' = FALSE
    /\ video_release_required' = FALSE
    /\ Publish(<<ResetEvent>>)

----------------------------------------------------------------------------
(* Environment *)

\* Every published event has been taken by the /stream reader.  No handler reads
\* the event queue, so the reader is scheduled first whenever an event waits in
\* it: the other variables go through the same behaviours as under any other
\* schedule, and the events a step publishes are the queue it leaves.
Delivered == event_queue = <<>>

\* CameraManager.get_frame in the main loop: a frame was read.
GetFrame ==
    /\ Delivered
    /\ UNCHANGED extVars
    /\ latest_raw_frame' = TRUE
    /\ UNCHANGED <<aiVars, logVars, agentVars, webVars, appVars, jobs, ghostVars>>

\* Half a second passes.
Tick ==
    /\ Delivered
    /\ UNCHANGED extVars
    /\ capture_elapsed' = Min(capture_elapsed + 1, capture_cooldown)
    /\ reset_elapsed' = Min(reset_elapsed + 1, reset_refractory_period)
    /\ press_elapsed' = Min(press_elapsed + 1, capture_cooldown)
    /\ any_reset_elapsed' = Min(any_reset_elapsed + 1, reset_refractory_period)
    /\ UNCHANGED <<aiVars, logVars, agentVars, webVars, latest_raw_frame,
                   in_voice_mode, video_release_required, jobs,
                   last_published, voice_turn, press_seq, press_trail, frozen>>

\* A /stream reader takes the next event from the queue.
StreamGet ==
    /\ event_queue # <<>>
    /\ event_queue' = Tail(event_queue)
    /\ UNCHANGED extVars
    /\ UNCHANGED <<aiVars, logVars, agentVars, latest_status, latest_raw_frame,
                   appVars, jobs, ghostVars>>

----------------------------------------------------------------------------
(* SparkBoxApp.handle_gpio, capture section: a poll in which get_press() of
   the capture button returns true. *)

\* no cooldown at all
CooldownActive_never == FALSE

CooldownActive == capture_elapsed < capture_cooldown

RefractoryActive == reset_elapsed < reset_refractory_period

\* the capture button always takes a photo when the station is not busy
CaptureBranch_ignoresResult ==
    IF CooldownActive THEN "cooldown"
    ELSE IF is_processing THEN "busy"
    ELSE IF RefractoryActive THEN "refractory" ELSE "snapshot"

\* which branch of lines 231-253 the press takes
CaptureBranch ==
    IF CooldownActive THEN "cooldown"
    ELSE IF is_processing THEN "busy"
    ELSE IF ~has_result
         THEN (IF RefractoryActive THEN "refractory" ELSE "snapshot")
         ELSE "reset"

\* saved: save_snapshot succeeds, or raises
GpioCapture(saved) ==
    /\ Delivered
    /\ UNCHANGED offResetVars
    /\ jobs_at_reset' = IF CaptureBranch = "reset" THEN Len(jobs) ELSE jobs_at_reset
    /\ latest_raw_frame
    /\ press_seq' = 1 - press_seq
    /\ press_trail' = LastTwo(Append(press_trail, CaptureBranch))
    /\ press_elapsed' = 0
    /\ UNCHANGED <<logVars, agentVars, latest_raw_frame, current_log_path>>
    /\ CASE CaptureBranch = "cooldown" ->
              /\ saved
              /\ UNCHANGED <<is_processing, status_message, last_vision_result,
                             last_solution_result, last_complete_result,
                             webVars, appVars, jobs, last_published, voice_turn,
                             any_reset_elapsed, frozen>>
         [] CaptureBranch \in {"busy", "refractory"} ->
              /\ saved
              /\ capture_elapsed' = 0
              /\ UNCHANGED <<is_processing, status_message, last_vision_result,
                             last_solution_result, last_complete_result,
                             webVars, in_voice_mode, video_release_required,
                             reset_elapsed, jobs, last_published, voice_turn,
                             any_reset_elapsed, frozen>>
         [] CaptureBranch = "snapshot" ->
              \* trigger_snapshot: is_busy() was false two lines earlier
              /\ capture_elapsed' = 0
              /\ handle_snapshot(saved)
              /\ UNCHANGED <<is_processing, status_message, last_vision_result,
                             last_solution_result, last_complete_result,
                             video_release_required, reset_elapsed,
                             any_reset_elapsed, frozen>>
         [] CaptureBranch = "reset" ->
              /\ saved
              /\ capture_elapsed' = 0
              /\ handle_reset
              /\ any_reset_elapsed' = 0
              /\ frozen' = FrozenAfterReset
              /\ UNCHANGED jobs

----------------------------------------------------------------------------
(* HTTP handlers *)

\* POST /api/reset
ApiReset ==
    /\ Delivered
    /\ UNCHANGED offResetVars
    /\ jobs_at_reset' = Len(jobs)
    /\ reset_results
    /\ latest_status' = ReadyStatus
    /\ any_reset_elapsed' = 0
    /\ frozen' = FrozenAfterReset
    /\ UNCHANGED <<current_log_path, logVars, agentVars, event_queue,
                   latest_raw_frame, appVars, jobs, last_published, voice_turn, press_seq,
                   press_trail, press_elapsed>>

\* POST /api/snapshot and the _handle_snapshot_api thread it starts;
\* saved: save_snapshot succeeds, or raises
ApiSnapshot(saved) ==
    /\ Delivered
    /\ UNCHANGED extVars
    /\ latest_raw_frame
    /\ IF is_busy
       THEN /\ saved
            /\ Publish(<<Event("error", "zh:ai-busy-snapshot", "None")>>)
            /\ UNCHANGED <<in_voice_mode, jobs>>
       ELSE handle_snapshot(saved)
    /\ UNCHANGED <<aiVars, logVars, agentVars, latest_raw_frame,
                   video_release_required, capture_elapsed, reset_elapsed,
                   press_seq, press_trail, press_elapsed, any_reset_elapsed,
                   frozen>>

----------------------------------------------------------------------------
(* AIManager.run_ai_pipeline, one step per blocking adapter call *)

SetPc(j, pc) == [jobs EXCEPT ![j].pc = pc]

\* the thread returns, or dies of an uncaught exception
Ended(j) == [jobs EXCEPT ![j] = [kind |-> "ended", pc |-> "done"]]

\* the Vision stage is not announced
StartEvents_visionUnannounced == <<Event("processing", "Analyzing Image...", "None")>>

\* lines 195 and 207: the two events pushed before VisionAgent.analyze is called
StartEvents ==
    <<Event("processing", "Analyzing Image...", "None"),
      Event("processing", "Vision Analysis...", "None")>>

\* lines 193-207: admission, new log session, clear_memory, first two events
PipelineStart(j) ==
    /\ Delivered
    /\ UNCHANGED extVars
    /\ jobs[j].kind = "capture" /\ jobs[j].pc = "spawned"
    /\ is_processing' = TRUE
    /\ status_message' = "Analyzing Image..."
    /\ Publish(StartEvents)
    /\ current_log_path' = NewLogPath
    /\ log_seq' = log_seq + 1
    \* SolutionAgent.clear_memory
    /\ conversation_history' = <<>>
    /\ current_solution' = None
    /\ jobs' = SetPc(j, "vision")
    /\ UNCHANGED <<last_vision_result, last_solution_result, last_complete_result,
                   log_files, history, latest_raw_frame, appVars,
                   press_seq, press_trail, press_elapsed, any_reset_elapsed,
                   frozen>>

\* lines 208-222: VisionAgent.analyze returns an object (ok) or None;
\* _log_image("user", path) appends the turn or gives up silently.
PipelineVision(j, ok, logged) ==
    /\ Delivered
    /\ UNCHANGED extVars
    /\ jobs[j].kind = "capture" /\ jobs[j].pc = "vision"
    /\    IF ~ok
          THEN /\ ~logged
               /\ status_message' = "Vision Failed"
               /\ is_processing' = FALSE
               /\ jobs' = Ended(j)
               /\ UNCHANGED <<last_vision_result, log_files, webVars, last_published, voice_turn>>
          ELSE /\ log_files' = IF logged
                               THEN AppendedLog(<<Turn("user", "image", j)>>)
                               ELSE log_files
               /\ last_vision_result' = j
               /\ status_message' = "Generating Solution..."
               /\ Publish(<<Event("processing", "Generating Solution...", "vision")>>)
               /\ jobs' = SetPc(j, "solution")
               /\ UNCHANGED is_processing
    /\ UNCHANGED <<last_solution_result, last_complete_result, current_log_path,
                   log_seq, agentVars, latest_raw_frame, appVars,
                   press_seq, press_trail, press_elapsed, any_reset_elapsed,
                   frozen>>

\* lines 225-240: SolutionAgent.generate returns an object (ok) or None;
\* _log_text("ai", text) appends ("ok"), has no text to write ("skip") or
\* raises while writing the file ("raise").
PipelineSolution(j, ok, wr) ==
    /\ Delivered
    /\ UNCHANGED extVars
    /\ jobs[j].kind = "capture" /\ jobs[j].pc = "solution"
    /\    IF ~ok
          THEN /\ wr = "skip"
               /\ status_message' = "Solution Failed"
               /\ is_processing' = FALSE
               /\ jobs' = Ended(j)
               /\ UNCHANGED <<last_solution_result, current_solution, log_files,
                              webVars, last_published, voice_turn>>
          ELSE /\ current_solution' = j
               /\ last_solution_result' = j
               /\ log_files' = IF wr = "ok"
                               THEN AppendedLog(<<Turn("ai", "text", j)>>)
                               ELSE log_files
               /\ IF wr = "raise"
                  THEN /\ status_message' = "Error in Pipeline"
                       /\ Publish(<<Event("error", "exception", "None")>>)
                       /\ is_processing' = FALSE
                       /\ jobs' = Ended(j)
                  ELSE /\ status_message' = "Generating Preview..."
                       /\ Publish(<<Event("processing", "Generating Preview Image...", "None")>>)
                       /\ jobs' = SetPc(j, "preview")
                       /\ UNCHANGED is_processing
    /\ UNCHANGED <<last_vision_result, last_complete_result, current_log_path,
                   log_seq, history, conversation_history, latest_raw_frame,
                   appVars, press_seq, press_trail, press_elapsed,
                   any_reset_elapsed, frozen>>

\* lines 243-282: generate_image returns a URL (url) or None;
\* _log_image("ai", url, is_url=True) downloads and appends ("ok"), fails to
\* download ("skip") or raises while writing the file ("raise").
PipelinePreview(j, url, wr) ==
    /\ Delivered
    /\ UNCHANGED extVars
    /\ jobs[j].kind = "capture" /\ jobs[j].pc = "preview"
    /\    /\ ~url => wr = "skip"
          /\ log_files' = IF wr = "ok"
                          THEN AppendedLog(<<Turn("ai", "image", j)>>)
                          ELSE log_files
          /\ IF wr = "raise"
             THEN /\ status_message' = "Error in Pipeline"
                  /\ Publish(<<Event("error", "exception", "None")>>)
                  /\ UNCHANGED last_complete_result
             ELSE /\ status_message' = IF url THEN "Pipeline Complete! Check Console."
                                       ELSE "Pipeline Complete (No Image)."
                  /\ last_complete_result' = j
                  /\ Publish(<<Event("complete", "Analysis Complete!", "final")>>)
    /\ is_processing' = FALSE
    /\ jobs' = Ended(j)
    /\ UNCHANGED <<last_vision_result, last_solution_result, current_log_path,
                   log_seq, agentVars, latest_raw_frame, appVars,
                   press_seq, press_trail, press_elapsed, any_reset_elapsed,
                   frozen>>

----------------------------------------------------------------------------
(* AIManager.run_chat_ai *)

\* run_chat_ai_async(text), as process_voice_after_record and
\* transcribe_and_chat submit a transcript.
RunChatAiAsync ==
    /\ Delivered
    /\ UNCHANGED extVars
    /\ Spawn("chat")
    /\ UNCHANGED <<aiVars, logVars, agentVars, webVars, latest_raw_frame,
                   appVars, ghostVars>>

\* a chat is admitted although a job holds the slot
ChatAdmission_noBusyCheck ==
    IF last_vision_result = None THEN "no-context" ELSE "admitted"

\* a chat is admitted whenever the station is not busy
ChatAdmission_noContextCheck == IF is_processing THEN "busy" ELSE "admitted"

\* lines 310-319: the two checks of run_chat_ai before it takes the slot
ChatAdmission ==
    IF is_processing THEN "busy"
    ELSE IF last_vision_result = None THEN "no-context"
    ELSE "admitted"

\* lines 310-329: admission, voice_user and voice_processing events and the
\* user turn's log write, which succeeds or raises before the try block.
ChatStart(j, wr) ==
    /\ Delivered
    /\ UNCHANGED extVars
    /\ jobs[j].kind = "chat" /\ jobs[j].pc = "spawned"
    /\    IF ChatAdmission = "busy"
          THEN /\ wr = "ok"
               /\ Publish(<<Event("voice_error", "zh:ai-busy-chat", "None")>>)
               /\ jobs' = Ended(j)
               /\ UNCHANGED <<is_processing, status_message, log_files>>
          ELSE IF ChatAdmission = "no-context"
          THEN /\ wr = "ok"
               /\ status_message' = "Chat Failed: No Context"
               /\ Publish(<<Event("voice_error", "zh:photo-first", "None")>>)
               /\ jobs' = Ended(j)
               /\ UNCHANGED <<is_processing, log_files>>
          ELSE /\ is_processing' = TRUE
               /\ status_message' = "AI Thinking..."
               /\ Publish(<<Event("voice_user", "user-text", "user_text"),
                            Event("voice_processing", "zh:ai-thinking", "None")>>)
               /\ IF wr = "ok"
                  THEN /\ log_files' = AppendedLog(<<Turn("user", "text", j)>>)
                       /\ jobs' = SetPc(j, "reply")
                  ELSE /\ UNCHANGED log_files
                       /\ jobs' = Ended(j)
    /\ UNCHANGED <<last_vision_result, last_solution_result, last_complete_result,
                   current_log_path, log_seq, agentVars, latest_raw_frame, appVars,
                   press_seq, press_trail, press_elapsed, any_reset_elapsed,
                   frozen>>

\* SolutionAgent.chat: "refusal" without a current solution; else the user
\* message joins history and the endpoint answers ("reply"), answers with
\* empty content ("empty") or fails ("apology").
ChatOutcomes ==
    IF current_solution = None THEN {"refusal"} ELSE {"reply", "empty", "apology"}

HistoryAfterChat(j, out) ==
    CASE out = "refusal" -> history
      [] out = "apology" -> Append(history, [role |-> "user", job |-> j,
                                             project |-> current_solution])
      [] OTHER -> history \o <<[role |-> "user", job |-> j,
                                project |-> current_solution],
                               [role |-> "assistant", job |-> j,
                                project |-> current_solution]>>

\* lines 336-361
ChatReply(j, out, wr) ==
    /\ Delivered
    /\ UNCHANGED extVars
    /\ jobs[j].kind = "chat" /\ jobs[j].pc = "reply"
    /\    /\ out \in ChatOutcomes
          /\ history' = HistoryAfterChat(j, out)
          /\ IF out = "empty"
             THEN /\ wr = "ok"
                  /\ status_message' = "AI Chat Failed"
                  /\ Publish(<<Event("voice_error", "zh:ai-reply-failed", "None")>>)
                  /\ UNCHANGED log_files
             ELSE IF wr = "ok"
             THEN /\ status_message' = "AI Responded!"
                  /\ Publish(<<Event("voice_response", out, "ai_text")>>)
                  /\ log_files' = AppendedLog(<<Turn("ai", "text", j)>>)
             ELSE /\ status_message' = "Error in Chat"
                  /\ Publish(<<Event("voice_response", out, "ai_text"),
                               Event("voice_error", "zh:chat-error", "None")>>)
                  /\ UNCHANGED log_files
    /\ is_processing' = FALSE
    /\ jobs' = Ended(j)
    /\ UNCHANGED <<last_vision_result, last_solution_result, last_complete_result,
                   current_log_path, log_seq, conversation_history,
                   current_solution, latest_raw_frame, appVars,
                   press_seq, press_trail, press_elapsed, any_reset_elapsed,
                   frozen>>

----------------------------------------------------------------------------

Threads == 1..Len(jobs)

\* The job threads: each adapter answers or fails, and each write of the
\* session log succeeds or raises.
JobSteps ==
    \/ \E j \in Threads : PipelineStart(j)
    \/ \E j \in Threads, ok \in BOOLEAN : PipelineVision(j, ok, ok)
    \/ \E j \in Threads, wr \in {"ok", "raise"} : PipelineSolution(j, TRUE, wr)
    \/ \E j \in Threads : PipelineSolution(j, FALSE, "skip")
    \/ \E j \in Threads, wr \in {"ok", "raise"} : PipelinePreview(j, TRUE, wr)
    \/ \E j \in Threads : PipelinePreview(j, FALSE, "skip")
    \/ \E j \in Threads, wr \in {"ok", "raise"} : ChatStart(j, wr)
    \/ \E j \in Threads, out \in ChatOutcomes, wr \in {"ok", "raise"} : ChatReply(j, out, wr)

\* The station driven over HTTP.
Next ==
    \/ StreamGet
    \/ GetFrame
    \/ ApiReset
    \/ \E saved \in BOOLEAN : ApiSnapshot(saved)
    \/ RunChatAiAsync
    \/ JobSteps

Spec == Init /\ [][Next]_vars

\* The job threads when the log directory is writable and the Solution and
\* Preview adapters answer; Vision may still fail.
GpioJobSteps ==
    \/ \E j \in Threads : PipelineStart(j)
    \/ \E j \in Threads, ok \in BOOLEAN : PipelineVision(j, ok, ok)
    \/ \E j \in Threads : PipelineSolution(j, TRUE, "ok")
    \/ \E j \in Threads : PipelinePreview(j, TRUE, "ok")
    \/ \E j \in Threads : ChatStart(j, "ok")
    \/ \E j \in Threads : ChatReply(j, "reply", "ok")

\* The station driven by the capture button and over HTTP, with the clock.
NextGpio ==
    \/ StreamGet
    \/ GetFrame
    \/ Tick
    \/ \E saved \in BOOLEAN : GpioCapture(saved)
    \/ ApiReset
    \/ ApiSnapshot(TRUE)
    \/ RunChatAiAsync
    \/ GpioJobSteps

SpecGpio == Init /\ [][NextGpio]_vars

\* A run that can reach a second project after a chat about the first.
InitProjects == InitFor(MaxProjectJobs) /\ response_text = <<>>

\* The station driven over HTTP, with the log directory writable and the
\* Solution and Preview adapters answering.
NextProjects ==
    \/ StreamGet
    \/ GetFrame
    \/ ApiSnapshot(TRUE)
    \/ RunChatAiAsync
    \/ GpioJobSteps

SpecProjects == InitProjects /\ [][NextProjects]_vars

----------------------------------------------------------------------------
(* Voice: /api/voice/start, /api/voice/stop, the video button, and the threads
   that transcribe a recording *)

pressGhosts == <<press_seq, press_trail, press_elapsed, any_reset_elapsed, frozen>>

\* What Voice2Text.transcribe_audio returns: None (no file, call failed, bad
\* status), the joined sentences (possibly the empty string), or, when the
\* response has no sentences, json.dumps(response.output), which is the
\* string "null" for an empty output.
Transcripts == {"none", "empty", "null", "text"}

\* Python truth of the returned value: `if text`
Truthy(t) == t \notin {"none", "empty"}

\* text.strip().lower() != "null"
NotNullString(t) == t # "null"

\* the position of a thread that holds the returned transcript
Got == [none |-> "got-none", empty |-> "got-empty", null |-> "got-null",
        text |-> "got-text"]

\* POST /api/voice/start when nothing is being recorded
ApiVoiceStart ==
    /\ Delivered
    /\ ~is_recording
    /\ is_recording' = TRUE
    /\ Publish(<<Event("voice_recording", "zh:recording-started", "None")>>)
    /\ UNCHANGED <<aiVars, logVars, agentVars, latest_raw_frame, appVars, jobs,
                   video_pressed, video_latch, appendVars, detectVars, hold_started, job_limit, auxVars, pressGhosts, busVars>>

\* POST /api/voice/stop while recording: stop_recording, then
\* transcribe_and_chat_async
ApiVoiceStop ==
    /\ Delivered
    /\ is_recording
    /\ is_recording' = FALSE
    /\ Spawn("transcribe")
    /\ UNCHANGED <<aiVars, logVars, agentVars, webVars, latest_raw_frame, appVars,
                   video_pressed, video_latch, appendVars, detectVars, hold_started, job_limit, auxVars, ghostVars, busVars>>

\* the video button goes down: GPIOButton._press_callback latches the press
VideoPress ==
    /\ Delivered
    /\ ~video_pressed
    /\ video_pressed' = TRUE
    /\ video_latch' = TRUE
    /\ hold_started' = FALSE
    /\ UNCHANGED <<aiVars, logVars, agentVars, webVars, latest_raw_frame, appVars,
                   jobs, is_recording, appendVars, detectVars, last_published,
                   pressGhosts, voice_turn, job_limit, auxVars, busVars>>

\* the video button goes up
VideoRelease ==
    /\ Delivered
    /\ video_pressed
    /\ video_pressed' = FALSE
    /\ UNCHANGED <<aiVars, logVars, agentVars, webVars, latest_raw_frame, appVars,
                   jobs, is_recording, video_latch, appendVars, detectVars, hold_started, job_limit, auxVars, ghostVars, busVars>>

\* push-to-talk that does not wait for the release of the entering press
VideoBranch_noReleaseWait ==
    IF has_result /\ ~in_voice_mode
    THEN (IF video_latch THEN "enter" ELSE "none")
    ELSE IF in_voice_mode
    THEN IF video_pressed
         THEN (IF ~is_recording THEN "start" ELSE "none")
         ELSE (IF is_recording THEN "stop" ELSE "none")
    ELSE "none"

\* which branch of lines 263-293 a poll takes ("none": nothing to do)
VideoBranch ==
    IF has_result /\ ~in_voice_mode
    THEN (IF video_latch THEN "enter" ELSE "none")
    ELSE IF in_voice_mode
    THEN IF video_release_required
         THEN (IF ~video_pressed THEN "released" ELSE "none")
         ELSE IF video_pressed
         THEN (IF ~is_recording THEN "start" ELSE "none")
         ELSE (IF is_recording THEN "stop" ELSE "none")
    ELSE "none"

\* SparkBoxApp.handle_gpio, video section, in a poll that finds no capture press
GpioVideo ==
    /\ Delivered
    /\ latest_raw_frame
    /\ VideoBranch # "none"
    /\ CASE VideoBranch = "enter" ->
              /\ video_latch' = FALSE
              /\ in_voice_mode' = TRUE
              /\ video_release_required' = TRUE
              /\ Publish(<<Event("control", "Enter Voice", "enter_voice")>>)
              /\ UNCHANGED <<is_recording, jobs>>
         [] VideoBranch = "released" ->
              /\ video_release_required' = FALSE
              /\ UNCHANGED <<in_voice_mode, is_recording, video_latch, jobs,
                             webVars, last_published, voice_turn>>
         [] VideoBranch = "start" ->
              /\ Publish(<<Event("voice_recording", "zh:recording", "None")>>)
              /\ is_recording' = TRUE
              /\ UNCHANGED <<in_voice_mode, video_release_required, video_latch, jobs>>
         [] VideoBranch = "stop" ->
              /\ is_recording' = FALSE
              /\ Spawn("after_record")
              /\ UNCHANGED <<in_voice_mode, video_release_required, video_latch,
                             webVars, last_published, voice_turn>>
    /\ hold_started' = (hold_started \/ VideoBranch = "start")
    /\ UNCHANGED <<aiVars, logVars, agentVars, latest_raw_frame, capture_elapsed,
                   reset_elapsed, video_pressed, appendVars, detectVars, pressGhosts,
                   job_limit, auxVars, busVars>>

\* what no step of a transcribing thread touches
offVoiceThreadVars ==
    <<is_processing, last_vision_result, last_solution_result,
      last_complete_result, current_log_path, logVars, agentVars,
      latest_raw_frame, appVars, voiceVars, appendVars, detectVars, hold_started, job_limit, auxVars, pressGhosts, busVars>>

\* transcribe_and_chat, lines 371-376: the voice_processing event, then the
\* call of transcribe_audio
TranscribeStart(j) ==
    /\ Delivered
    /\ jobs[j].kind = "transcribe" /\ jobs[j].pc = "spawned"
    /\ Publish(<<Event("voice_processing", "zh:transcribing", "None")>>)
    /\ jobs' = SetPc(j, "transcribing")
    /\ UNCHANGED <<offVoiceThreadVars, status_message>>

\* transcribe_audio returns t to transcribe_and_chat (line 378) or to
\* process_voice_after_record (main_arm.py:355)
TranscribeReturn(j, t) ==
    /\ Delivered
    /\ \/ jobs[j].kind = "transcribe" /\ jobs[j].pc = "transcribing"
       \/ jobs[j].kind = "after_record" /\ jobs[j].pc = "spawned"
    /\ jobs' = SetPc(j, Got[t])
    /\ UNCHANGED <<offVoiceThreadVars, status_message, webVars, last_published,
                   voice_turn>>

\* the transcript a thread holds
Held(j) == CHOOSE t \in Transcripts : Got[t] = jobs[j].pc

\* the thread goes on as run_chat_ai(text)
AsChat(j) == [jobs EXCEPT ![j] = [kind |-> "chat", pc |-> "spawned"]]

\* transcribe_and_chat, lines 380-388: run_chat_ai is called in the same thread
TranscribeBranch(j) ==
    /\ Delivered
    /\ jobs[j].kind = "transcribe" /\ jobs[j].pc \in {Got[t] : t \in Transcripts}
    /\ IF Truthy(Held(j)) /\ NotNullString(Held(j))
       THEN /\ status_message' = "Voice: text"
            /\ jobs' = AsChat(j)
            /\ UNCHANGED <<webVars, last_published, voice_turn>>
       ELSE /\ status_message' = "Voice: Transcription Failed"
            /\ Publish(<<Event("voice_error", "zh:transcription-failed", "None")>>)
            /\ jobs' = Ended(j)
    /\ UNCHANGED offVoiceThreadVars

\* process_voice_after_record, lines 356-362: the thread ends after
\* run_chat_ai_async(text), and the thread that call starts takes its place
AfterRecordBranch(j) ==
    /\ Delivered
    /\ jobs[j].kind = "after_record" /\ jobs[j].pc \in {Got[t] : t \in Transcripts}
    /\ IF Truthy(Held(j))
       THEN /\ Publish(<<Event("voice_user", Held(j), "None")>>)
            /\ jobs' = AsChat(j)
       ELSE /\ Publish(<<Event("voice_error", "zh:no-speech", "None")>>)
            /\ jobs' = Ended(j)
    /\ UNCHANGED <<offVoiceThreadVars, status_message>>

\* The threads of the voice paths; the adapters of a capture answer and the
\* log directory is writable.
VoiceSteps ==
    \/ \E j \in Threads : PipelineStart(j)
    \/ \E j \in Threads : PipelineVision(j, TRUE, TRUE)
    \/ \E j \in Threads : PipelineSolution(j, TRUE, "ok")
    \/ \E j \in Threads : PipelinePreview(j, TRUE, "ok")
    \/ \E j \in Threads : TranscribeStart(j)
    \/ \E j \in Threads, t \in Transcripts : TranscribeReturn(j, t)
    \/ \E j \in Threads : TranscribeBranch(j)
    \/ \E j \in Threads : AfterRecordBranch(j)
    \/ \E j \in Threads : ChatStart(j, "ok")
    \/ \E j \in Threads, out \in ChatOutcomes : ChatReply(j, out, "ok")

\* The station with its voice routes and the video button.
NextVoice ==
    \/ StreamGet
    \/ GetFrame
    \/ ApiSnapshot(TRUE)
    \/ ApiReset
    \/ ApiVoiceStart
    \/ ApiVoiceStop
    \/ VideoPress
    \/ VideoRelease
    \/ GpioVideo
    \/ VoiceSteps

SpecVoice == Init /\ [][NextVoice]_vars

----------------------------------------------------------------------------
(* SquareDetector: the detection call of the main loop, and the snapshot that
   rectifies with the stored corners *)

GridPoints == (0..GridW) \X (0..GridH)

Abs(n) == IF n < 0 THEN -n ELSE n

\* vertex i of polygon q, cyclically
Vertex(q, i) == q[((i - 1) % Len(q)) + 1]

RECURSIVE ShoelaceSum(_, _)
ShoelaceSum(q, i) ==
    IF i > Len(q) THEN 0
    ELSE Vertex(q, i)[1] * Vertex(q, i + 1)[2] - Vertex(q, i + 1)[1] * Vertex(q, i)[2]
         + ShoelaceSum(q, i + 1)

\* twice cv2.contourArea, in square pixels
ContourArea2(q) == Abs(ShoelaceSum(q, 1)) * CellPx * CellPx

\* the turn at vertex i + 1, going from vertex i to vertex i + 2
Turn2(q, i) ==
    (Vertex(q, i + 1)[1] - Vertex(q, i)[1]) * (Vertex(q, i + 2)[2] - Vertex(q, i + 1)[2])
    - (Vertex(q, i + 1)[2] - Vertex(q, i)[2]) * (Vertex(q, i + 2)[1] - Vertex(q, i + 1)[1])

\* cv2.isContourConvex: the turns never change direction
isContourConvex(q) ==
    \/ \A i \in 1..Len(q) : Turn2(q, i) >= 0
    \/ \A i \in 1..Len(q) : Turn2(q, i) <= 0

\* What approxPolyDP returns for an external contour: the three or four
\* vertices of a simple polygon, in either direction from any first vertex;
\* no vertex lies on the line through its neighbours, and the sides of a
\* four-sided one do not cross (its turns are not two one way and two the
\* other).
Polygons ==
    {q \in [1..3 -> GridPoints] \cup [1..4 -> GridPoints] :
        /\ \A i, k \in DOMAIN q : i # k => q[i] # q[k]
        /\ \A i \in DOMAIN q : Turn2(q, i) # 0
        /\ Cardinality({i \in DOMAIN q : Turn2(q, i) > 0}) # 2}

\* the contour lists findContours can return
Frames == {<<>>} \cup UNION {[1..n -> Polygons] : n \in 1..MaxContours}

\* the square of the length of the side from vertex i to vertex i + 1
SideSq(q, i) ==
    (Vertex(q, i)[1] - Vertex(q, i + 1)[1]) * (Vertex(q, i)[1] - Vertex(q, i + 1)[1])
    + (Vertex(q, i)[2] - Vertex(q, i + 1)[2]) * (Vertex(q, i)[2] - Vertex(q, i + 1)[2])

\* lines 97-104: max_side / min_side <= 1.5, with min_side > 0
AspectOk(q) ==
    \A i, k \in 1..4 : SideSq(q, k) > 0 /\ 4 * SideSq(q, i) <= 9 * SideSq(q, k)

\* lines 66-105, from contour i on: the largest contour found so far and
\* twice its area; <<>> stands for None
RECURSIVE LargestContour(_, _, _, _)
LargestContour(contours, i, max_area2, largest) ==
    IF i > Len(contours) THEN largest
    ELSE LET c == contours[i]
             better == /\ ContourArea2(c) >= 2 * min_contour_area
                       /\ Len(c) = 4
                       /\ ContourArea2(c) > max_area2
                       /\ isContourConvex(c)
                       /\ AspectOk(c)
         IN  IF better
             THEN LargestContour(contours, i + 1, ContourArea2(c), c)
             ELSE LargestContour(contours, i + 1, max_area2, largest)

\* np.argmin / np.argmax: the first index of the least / greatest value
ArgMin(f) == CHOOSE i \in 1..4 : \A k \in 1..4 : f[i] <= f[k] /\ (k < i => f[k] > f[i])

ArgMax(f) == CHOOSE i \in 1..4 : \A k \in 1..4 : f[i] >= f[k] /\ (k < i => f[k] < f[i])

\* SquareDetector.order_points: TL, TR, BR, BL
order_points(pts) ==
    LET s == [i \in 1..4 |-> pts[i][1] + pts[i][2]]
        diff == [i \in 1..4 |-> pts[i][2] - pts[i][1]]
    IN  <<pts[ArgMin(s)], pts[ArgMin(diff)], pts[ArgMax(s)], pts[ArgMax(diff)]>>

\* everything but the detector
offDetectVars ==
    <<aiVars, logVars, agentVars, webVars, appVars, jobs, voiceVars, appendVars,
      ghostVars, busVars, auxVars>>

\* SparkBoxApp.run, line 392: get_frame returns a frame with contours f
ReadFrame(f) ==
    /\ Delivered
    /\ ~detecting
    /\ latest_raw_frame' = TRUE
    /\ frame_contours' = f
    /\ detecting' = TRUE
    /\ UNCHANGED <<offDetectVars, corners, quad_found, snapshot_image>>

\* a detection that forgets the stored corners when it finds no quadrilateral
DetectStep_forgetsCorners ==
    /\ Delivered
    /\ detecting
    /\ corners' = LET largest_contour == LargestContour(frame_contours, 1, 0, <<>>)
                  IN  IF largest_contour # <<>>
                      THEN order_points(largest_contour)
                      ELSE <<>>
    /\ quad_found' = IF LargestContour(frame_contours, 1, 0, <<>>) # <<>>
                     THEN "yes" ELSE "no"
    /\ frame_contours' = <<>>
    /\ detecting' = FALSE
    /\ UNCHANGED <<offDetectVars, latest_raw_frame, snapshot_image>>

\* SparkBoxApp.run, line 398: detect_white_square_with_black_border(frame)
DetectStep ==
    /\ Delivered
    /\ detecting
    /\ corners' = LET largest_contour == LargestContour(frame_contours, 1, 0, <<>>)
                  IN  IF largest_contour # <<>>
                      THEN order_points(largest_contour)
                      ELSE corners
    /\ quad_found' = IF LargestContour(frame_contours, 1, 0, <<>>) # <<>>
                     THEN "yes" ELSE "no"
    /\ frame_contours' = <<>>
    /\ detecting' = FALSE
    /\ UNCHANGED <<offDetectVars, latest_raw_frame, snapshot_image>>

\* the frame comes back warped even when no corners are stored
apply_perspective_transform_alwaysWarps(frame) == "warped"

\* SquareDetector.apply_perspective_transform
apply_perspective_transform(frame) ==
    IF Len(corners) # 4 THEN frame ELSE "warped"

\* A snapshot request that finds the station free (trigger_snapshot or
\* _handle_snapshot_api), with CameraManager.save_snapshot writing the
\* rectified frame; saved tells whether the files could be written.
DetectorSnapshot(saved) ==
    /\ Delivered
    /\ latest_raw_frame
    /\ ~is_busy
    /\ handle_snapshot(saved)
    /\ snapshot_image' = IF saved THEN apply_perspective_transform("raw")
                                  ELSE snapshot_image
    /\ UNCHANGED <<aiVars, logVars, agentVars, latest_raw_frame,
                   video_release_required, capture_elapsed, reset_elapsed,
                   voiceVars, appendVars, pressGhosts, busVars,
                   corners, frame_contours, detecting, quad_found, hold_started,
                   job_limit, auxVars>>

NextDetect ==
    \/ StreamGet
    \/ \E f \in Frames : ReadFrame(f)
    \/ DetectStep
    \/ \E saved \in BOOLEAN : DetectorSnapshot(saved)

\* The main loop's detector and the snapshots taken with it.
SpecDetect == Init /\ [][NextDetect]_vars

----------------------------------------------------------------------------
(* The event bus and its /stream connections *)

\* everything but the event bus
offBusVars ==
    <<aiVars, logVars, agentVars, latest_raw_frame, appVars, jobs, voiceVars,
      appendVars, detectVars, hold_started, job_limit, auxVars, press_seq, press_trail, press_elapsed, any_reset_elapsed, frozen>>

\* the control events of the PGUP and PGDN buttons
PageEvents ==
    {Event("control", "Previous", "prev"), Event("control", "Next", "next")}

\* a page button that also takes the station out of voice mode
GpioPage_leavesVoiceMode(e) ==
    /\ Len(bus_sent) < MaxEvents
    /\ Publish(<<e>>)
    /\ bus_sent' = Append(bus_sent, e)
    /\ in_voice_mode' = FALSE
    /\ UNCHANGED <<aiVars, logVars, agentVars, latest_raw_frame,
                   video_release_required, capture_elapsed, reset_elapsed, jobs,
                   voiceVars, appendVars, detectVars, hold_started, job_limit, auxVars,
                   pressGhosts, joined, received>>

\* handle_gpio, PGUP and PGDN sections: get_press() of a page button returns
\* true and its control event is pushed.
GpioPage(e) ==
    /\ Len(bus_sent) < MaxEvents
    /\ Publish(<<e>>)
    /\ bus_sent' = Append(bus_sent, e)
    /\ UNCHANGED <<offBusVars, joined, received>>

\* GET /stream: a browser opens a connection and its generator starts.
StreamConnect(s) ==
    /\ joined[s] = -1
    /\ joined' = [joined EXCEPT ![s] = Len(bus_sent)]
    /\ UNCHANGED <<offBusVars, webVars, last_published, voice_turn, bus_sent, received>>

\* the place in bus_sent of the event at the head of the queue
HeadIndex == Len(bus_sent) - Len(event_queue) + 1

\* event_stream of connection s: event_queue.get / get_nowait takes the head of
\* the one queue of the WebManager and the generator yields it to its browser.
SubscriberGet(s) ==
    /\ joined[s] >= 0
    /\ event_queue # <<>>
    /\ event_queue' = Tail(event_queue)
    /\ received' = [received EXCEPT ![s] = Append(@, HeadIndex)]
    /\ UNCHANGED <<offBusVars, latest_status, last_published, voice_turn, bus_sent, joined>>

NextBus ==
    \/ \E e \in PageEvents : GpioPage(e)
    \/ \E s \in Subscribers : StreamConnect(s)
    \/ \E s \in Subscribers : SubscriberGet(s)

\* The page buttons and the browsers connected to /stream.
SpecBus == Init /\ [][NextBus]_vars

NextPage ==
    \/ StreamGet
    \/ GetFrame
    \/ ApiSnapshot(TRUE)
    \/ RunChatAiAsync
    \/ GpioJobSteps
    \/ VideoPress
    \/ GpioVideo
    \/ \E e \in PageEvents : GpioPage(e)

\* The page buttons pressed while projects are made and voice mode is entered.
SpecPage == Init /\ [][NextPage]_vars

----------------------------------------------------------------------------
(* AIManager._append_log_entries, statement by statement, for the threads that
   log a turn at the same time *)

\* everything but the session log and the threads inside _append_log_entries
offLogVars ==
    <<is_processing, status_message, last_vision_result, last_solution_result,
      last_complete_result, agentVars, webVars, latest_raw_frame, appVars, jobs,
      voiceVars, ghostVars, busVars, detectVars, hold_started, job_limit, auxVars>>

\* the k-th turn that thread a logs
EntryOf(a, k) == Turn("user", "text", MaxAppends * (a - 1) + k)

\* lines 83-86: a thread enters with one turn to log; a session is started if
\* there is none, and the path is kept in the local log_path.
AppendEnter(a) ==
    /\ appenders[a].pc = "idle"
    /\ appenders[a].done < MaxAppends
    /\ IF current_log_path = None
       THEN /\ current_log_path' = NewLogPath
            /\ log_seq' = log_seq + 1
       ELSE UNCHANGED <<current_log_path, log_seq>>
    /\ appenders' = [appenders EXCEPT ![a].pc = "read",
                                      ![a].log_path = current_log_path']
    /\ UNCHANGED <<offLogVars, log_files, log_torn>>

\* lines 87-95: existing is the list in the file, or [] when the file is not
\* there or json.load fails on it.
AppendRead(a) ==
    /\ appenders[a].pc = "read"
    /\ appenders' =
          [appenders EXCEPT ![a].pc = "open",
                            ![a].existing = IF log_torn[appenders[a].log_path]
                                            THEN <<>>
                                            ELSE log_files[appenders[a].log_path]]
    /\ UNCHANGED <<offLogVars, current_log_path, logVars, log_torn>>

\* line 98: open(log_path, "w") truncates the file.
AppendOpen(a) ==
    /\ appenders[a].pc = "open"
    /\ log_files' = [log_files EXCEPT ![appenders[a].log_path] = <<>>]
    /\ log_torn' = [log_torn EXCEPT ![appenders[a].log_path] = TRUE]
    /\ appenders' = [appenders EXCEPT ![a].pc = "dump"]
    /\ UNCHANGED <<offLogVars, current_log_path, log_seq>>

\* lines 97 and 99: existing.extend(entries) is dumped and the file is closed.
AppendDump(a) ==
    /\ appenders[a].pc = "dump"
    /\ log_files' = [log_files EXCEPT ![appenders[a].log_path] =
                        Append(appenders[a].existing,
                               EntryOf(a, appenders[a].done + 1))]
    /\ log_torn' = [log_torn EXCEPT ![appenders[a].log_path] =
                        \E b \in AppenderIds \ {a} :
                            /\ appenders[b].pc = "dump"
                            /\ appenders[b].log_path = appenders[a].log_path]
    /\ appenders' = [appenders EXCEPT ![a].pc = "idle",
                                      ![a].existing = <<>>,
                                      ![a].done = @ + 1]
    /\ UNCHANGED <<offLogVars, current_log_path, log_seq>>

NextAppend ==
    \/ \E a \in AppenderIds : AppendEnter(a)
    \/ \E a \in AppenderIds : AppendRead(a)
    \/ \E a \in AppenderIds : AppendOpen(a)
    \/ \E a \in AppenderIds : AppendDump(a)

\* The threads that log turns of the same session.
SpecAppend == Init /\ [][NextAppend]_vars

----------------------------------------------------------------------------
(* Vocabulary of the properties *)

\* the terminal events (complete, error) in a list of events
TerminalEvents(q) == {i \in 1..Len(q) : q[i].state \in {"complete", "error"}}

\* the `processing` events in a list of events
ProcessingEvents(q) == {i \in 1..Len(q) : q[i].state = "processing"}

\* thread j returns or dies in this step
Ends(j) == jobs[j].pc # "done" /\ jobs'[j].pc = "done"

\* thread j holds the slot, or takes it in this step (a chat thread is
\* admitted when the station is not busy and a vision result is stored)
Admitted(j) ==
    \/ Running(j)
    \/ /\ jobs[j].kind = "chat" /\ jobs[j].pc = "spawned"
       /\ ~is_processing /\ last_vision_result # None

\* this step starts a capture job thread
SubmitsCapture ==
    /\ Len(jobs') = Len(jobs) + 1
    /\ Last(jobs') = [kind |-> "capture", pc |-> "spawned"]

\* a capture job stores its complete result in this step
CaptureCompletes ==
    \E j \in Threads : /\ jobs[j].kind = "capture" /\ jobs[j].pc = "preview"
                       /\ Ends(j)
                       /\ last_complete_result' = j

\* handle_gpio polls a capture press in this step
PressStep == press_seq' # press_seq

\* Mode = Result: a project is displayed and no job is running
InResult == has_result /\ ~is_processing

\* no project: no vision, solution or complete result
NoProject ==
    /\ last_vision_result = None
    /\ last_solution_result = None
    /\ last_complete_result = None

\* GET /api/result answers with the no-results sentinel
NoResults == api_result = [error |-> "No results available", result |-> None]

\* a reset by the capture button or by POST /api/reset happens in this step
ResetStep == ApiReset \/ (PressStep /\ CaptureBranch = "reset")

\* the step performs a reset and nothing else: no job and no processing event
ResetOnly ==
    /\ NoProject'
    /\ jobs' = jobs
    /\ ProcessingEvents(event_queue') = {}

----------------------------------------------------------------------------
(* The job scheduler and the HTTP status, under Spec *)

\* C1: at most one capture or chat job is running (between its start and
\* its termination) in every reachable state.
C1_SingleSlot == Cardinality(RunningJobs) <= 1

\* C2: an accepted capture job emits exactly one terminal event (complete or
\* error): none in a step in which it goes on, exactly one in the step in
\* which it ends, whichever stage fails or succeeds.
C2_ExactlyOneTerminalEvent ==
    [][\A j \in Threads :
          (jobs[j].kind = "capture" /\ Running(j) /\ jobs'[j] # jobs[j])
          => Cardinality(TerminalEvents(event_queue')) = (IF Ends(j) THEN 1 ELSE 0)]_vars

\* C3: when an admitted capture or chat job ends (success, failed stage or
\* exception) the slot is released: is_busy() is false afterwards.
C3_SlotReleased ==
    [][\A j \in Threads : (Admitted(j) /\ Ends(j)) => ~is_busy']_vars

\* C4: once an event has been published, GET /api/status returns the state
\* and message of the most recently published event.
C4_StatusIsLastEvent ==
    last_published # NoEvent
    => /\ api_status.state = last_published.state
       /\ api_status.message = last_published.message

----------------------------------------------------------------------------
(* The contextual capture button and the resets, under SpecGpio *)

\* C5: a reset made while no job is running leaves no project, the
\* no-results sentinel on /api/result, and every dialogue store of the
\* Solution adapter (conversation_history, history, current_solution) empty.
C5_ResetClearsConversation ==
    [][(ResetStep /\ RunningJobs = {})
       => /\ NoProject' /\ ~is_processing' /\ NoResults'
          /\ conversation_history' = <<>>
          /\ history' = <<>>
          /\ current_solution' = None]_vars

\* C6: the session log of the project that a reset (made while no job is
\* running) cleared keeps the content it had at that reset for ever.
C6_PreviousLogUntouched == \A p \in frozen : log_files[p[1]] = p[2]

\* a reset froze a log, and a later capture wrote turns into another file
C6_LaterSessionLogged ==
    \E p \in frozen : \E q \in JobIds : q # p[1] /\ log_files[q] # <<>>

\* C7 (as stated): a capture press in Result performs a reset, submits no job
\* and emits no processing event; the immediately following capture press,
\* when it falls outside the 2.0 s refractory window, submits a capture job.
C7_PressInResultResets ==
    [][/\ (PressStep /\ InResult) => ResetOnly
       /\ (/\ PressStep
           /\ press_trail # <<>> /\ Last(press_trail) = "reset"
           /\ reset_elapsed >= reset_refractory_period) => SubmitsCapture]_vars

\* C7 (amended): a capture press in Result that comes at least 1.0 s after
\* the last press the cooldown did not drop performs a reset, submits no job
\* and emits no processing event; the immediately following capture press,
\* when it comes at least 2.0 s after that reset and finds the station still
\* without a job and without a project, takes a snapshot and submits a
\* capture job, or reports that the snapshot could not be saved.
C7_PressInResultResetsAfterCooldown ==
    [][/\ (PressStep /\ InResult /\ capture_elapsed >= capture_cooldown)
          => ResetOnly
       /\ (/\ PressStep
           /\ press_trail # <<>> /\ Last(press_trail) = "reset"
           /\ reset_elapsed >= reset_refractory_period
           /\ ~is_processing /\ NoProject)
          => \/ /\ SubmitsCapture
                /\ event_queue' = <<Event("processing", "zh:analysing-image", "None")>>
             \/ /\ jobs' = jobs
                /\ event_queue' = <<Event("processing", "zh:analysing-image", "None"),
                                    Event("error", "zh:snapshot-failed", "None")>>]_vars

\* the press after a reset press has just submitted a capture job
C7_ResetThenSnapshot ==
    /\ press_trail = <<"reset", "snapshot">>
    /\ press_elapsed = 0
    /\ jobs # <<>> /\ Last(jobs) = [kind |-> "capture", pc |-> "spawned"]
    /\ NoProject

\* C8 (as stated): in Result a capture press emits the control event "Reset"
\* with data {"action":"reset"}, the mode becomes Idle and /api/result returns
\* the no-results sentinel until a later capture completes.
C8_PressInResultEmitsReset ==
    [][/\ (PressStep /\ InResult)
          => /\ event_queue' = <<Event("control", "Reset", "reset")>>
             /\ NoProject' /\ ~is_processing' /\ NoResults'
       /\ (NoResults /\ ~NoResults') => CaptureCompletes]_vars

\* C8 (amended): the same, for a capture press in Result that comes at least
\* 1.0 s after the last press the cooldown did not drop.
C8_PressInResultEmitsResetAfterCooldown ==
    [][/\ (PressStep /\ InResult /\ capture_elapsed >= capture_cooldown)
          => /\ event_queue' = <<Event("control", "Reset", "reset")>>
             /\ NoProject' /\ ~is_processing' /\ NoResults'
       /\ (NoResults /\ ~NoResults') => CaptureCompletes]_vars

\* a capture press in Result has just reset the station
C8_ResetJustPressed ==
    /\ press_trail # <<>> /\ Last(press_trail) = "reset"
    /\ press_elapsed = 0
    /\ event_queue = <<Event("control", "Reset", "reset")>>
    /\ NoResults /\ ~is_processing

\* C9 (as stated): a capture press less than 1.0 s after the previous capture
\* press, acted on or dropped, triggers no snapshot, no reset and no event.
C9_DroppedAfterAnyPress ==
    [][(PressStep /\ press_elapsed < capture_cooldown)
       => /\ jobs' = jobs
          /\ event_queue' = event_queue
          /\ UNCHANGED aiVars]_vars

\* C9 (amended): a capture press less than 1.0 s after the last capture press
\* that the cooldown did not drop is silently dropped: it triggers no
\* snapshot, no reset and no event, and changes nothing in the station.
C9_DroppedAfterAcceptedPress ==
    [][(PressStep /\ capture_elapsed < capture_cooldown)
       => UNCHANGED programVars]_vars

\* a press has just been dropped half a second after an accepted press
C9_PressJustDropped ==
    /\ press_trail # <<>> /\ Last(press_trail) = "cooldown"
    /\ press_elapsed = 0
    /\ capture_elapsed = 1

\* C10: a capture press less than 2.0 s after a reset (by the capture button
\* or by POST /api/reset) takes no snapshot and submits no job.
C10_DroppedAfterAnyReset ==
    [][(PressStep /\ any_reset_elapsed < reset_refractory_period)
       => /\ jobs' = jobs
          /\ ProcessingEvents(event_queue') = {}]_vars

----------------------------------------------------------------------------
(* The busy press and the remembered status *)

\* C13: a capture press made while a capture job is processing emits the
\* error event "zh:system-busy" and leaves the job in flight undisturbed.
C13_BusyPressEmitsError ==
    [][(/\ PressStep
        /\ is_processing
        /\ \E j \in Threads : jobs[j].kind = "capture" /\ Running(j))
       => /\ event_queue' = <<Event("error", "zh:system-busy", "None")>>
          /\ jobs' = jobs
          /\ UNCHANGED aiVars]_vars

\* C20: latest_status is the last event placed on the event queue, or the
\* initial ready status when none was published.
C20_LatestStatusIsLastQueued ==
    latest_status = (IF last_published = NoEvent THEN ReadyStatus ELSE last_published)

----------------------------------------------------------------------------
(* Chat without a project *)

\* thread j, a chat thread that has not run yet, executes run_chat_ai's
\* admission in this step
ChatStartStep(j) ==
    /\ jobs[j].kind = "chat" /\ jobs[j].pc = "spawned"
    /\ jobs'[j] # jobs[j]

\* the chat is refused for want of a project: the one voice_error event, no
\* Solution call, no log turn, the slot free
RejectedNoContext(j) ==
    /\ event_queue' = <<Event("voice_error", "zh:photo-first", "None")>>
    /\ jobs'[j] = [kind |-> "ended", pc |-> "done"]
    /\ UNCHANGED agentVars
    /\ log_files' = log_files
    /\ ~is_processing'

\* C12 (as stated): a chat turn submitted while no vision result is stored is
\* rejected with voice_error "zh:photo-first"; the Solution adapter is not
\* called, no log gets a turn and the slot stays free.
C12_ChatWithoutProjectRejected ==
    [][\A j \in Threads :
          (ChatStartStep(j) /\ last_vision_result = None) => RejectedNoContext(j)]_vars

\* C12 (amended): the same for a chat turn that starts while no vision result
\* is stored and no job holds the slot.
C12_ChatWithoutProjectRejectedWhenFree ==
    [][\A j \in Threads :
          (ChatStartStep(j) /\ last_vision_result = None /\ ~is_processing)
          => RejectedNoContext(j)]_vars

\* a chat has just been refused for want of a project
C12_ChatJustRejected ==
    /\ event_queue = <<Event("voice_error", "zh:photo-first", "None")>>
    /\ status_message = "Chat Failed: No Context"
    /\ last_vision_result = None /\ ~is_processing
    /\ \E j \in Threads : jobs[j].kind = "ended"

----------------------------------------------------------------------------
(* The events of one capture *)

\* capture thread j takes a step
CaptureStep(j) == jobs[j].kind = "capture" /\ jobs'[j] # jobs[j]

\* What a step of a capture job publishes, by the stage it leaves: the stages
\* follow one another as spawned, vision, solution, preview, and the adapter
\* of a stage is called after the event that announces the stage and before
\* the step that leaves it.  A job that fails leaves the sequence and
\* publishes no complete event.
JobEventOrder ==
    \A j \in Threads :
        CaptureStep(j) =>
            \/ /\ jobs[j].pc = "spawned" /\ jobs'[j].pc = "vision"
               /\ event_queue' = <<Event("processing", "Analyzing Image...", "None"),
                                   Event("processing", "Vision Analysis...", "None")>>
            \/ /\ jobs[j].pc = "vision" /\ jobs'[j].pc = "solution"
               /\ event_queue' = <<Event("processing", "Generating Solution...", "vision")>>
            \/ /\ jobs[j].pc = "solution" /\ jobs'[j].pc = "preview"
               /\ event_queue' = <<Event("processing", "Generating Preview Image...", "None")>>
            \/ /\ jobs[j].pc = "preview" /\ Ends(j)
               /\ last_complete_result' = j
               /\ event_queue' = <<Event("complete", "Analysis Complete!", "final")>>
            \/ /\ jobs[j].pc \in {"vision", "solution", "preview"} /\ Ends(j)
               /\ last_complete_result' = last_complete_result
               /\ \A i \in 1..Len(event_queue') : event_queue'[i].state # "complete"

\* C14 (as stated): from the press to the end of a successful capture the
\* events are processing "Analyzing Image...", "Vision Analysis...",
\* "Generating Solution...", "Generating Preview Image..." and complete, in
\* that order and nothing else: the step that submits the job publishes
\* nothing before them.
C14_CaptureEventOrder ==
    [][(SubmitsCapture => event_queue' = <<>>) /\ JobEventOrder]_vars

\* C14 (amended): the step that submits the job first publishes
\* processing "zh:analysing-image"; the job then publishes the five events of
\* the claim in that order, Vision, Solution and Preview being called in that
\* order, each after its own processing event.
C14_CaptureEventOrderAfterSnapshotEvent ==
    [][/\ SubmitsCapture
          => event_queue' = <<Event("processing", "zh:analysing-image", "None")>>
       /\ JobEventOrder]_vars

\* a capture submitted by a press has just completed
C14_PressedCaptureCompleted ==
    /\ press_trail # <<>> /\ Last(press_trail) = "snapshot"
    /\ Len(jobs) = 1 /\ jobs[1].kind = "ended"
    /\ last_complete_result = 1
    /\ event_queue = <<Event("complete", "Analysis Complete!", "final")>>

----------------------------------------------------------------------------
(* The shape of a session log *)

\* the turns a capture job writes, in the order it writes them
CaptureTurns(j) ==
    <<Turn("user", "image", j), Turn("ai", "text", j), Turn("ai", "image", j)>>

\* file f from its turn i on is a list of chat exchanges: user-text then
\* assistant-text of the same chat, the last one possibly still unanswered
ChatTurnsFrom(f, i) ==
    \A k \in i..Len(f) :
        IF (k - i) % 2 = 0
        THEN f[k] = Turn("user", "text", f[k].job)
        ELSE f[k] = Turn("ai", "text", f[k - 1].job)

\* C16: every session log holds the turns of one capture in the order
\* user-image, assistant-text, assistant-image (all three once the capture has
\* succeeded), and after them the chat turns, user-text then assistant-text.
C16_SessionLogInSubmissionOrder ==
    \A p \in JobIds :
        LET f == log_files[p]
        IN  f # <<>> =>
                LET j == f[1].job
                    n == Min(Len(f), 3)
                IN  /\ SubSeq(f, 1, n) = SubSeq(CaptureTurns(j), 1, n)
                    /\ last_complete_result = j => Len(f) >= 3
                    /\ ChatTurnsFrom(f, 4)

----------------------------------------------------------------------------
(* The event bus *)

\* the events published while connection s was open that have left the queue
TakenSinceJoined(s) == (joined[s] + 1)..(Len(bus_sent) - Len(event_queue))

\* C18: every open /stream connection gets every event published while it
\* is open, in the order of publication.
C18_EveryConnectionGetsEveryEvent ==
    \A s \in Subscribers :
        joined[s] >= 0 =>
            /\ \A i \in TakenSinceJoined(s) :
                   \E k \in 1..Len(received[s]) : received[s][k] = i
            /\ \A k \in 1..(Len(received[s]) - 1) : received[s][k] < received[s][k + 1]

\* C19: the events waiting for delivery never exceed a fixed capacity, the
\* oldest being dropped on overflow; for any capacity below the number of
\* events published, the queue then never holds them all.
C19_MailboxBounded == Len(event_queue) < MaxEvents

----------------------------------------------------------------------------
(* Appends to the session log *)

\* no thread is inside _append_log_entries
NoAppendInProgress == \A a \in AppenderIds : appenders[a].pc = "idle"

\* C17: session logs are append-only and no appended turn is ever lost, also
\* when appends interleave: whenever no append is in progress, the file holds
\* the turn of every append that was made.
C17_NoAppendedTurnLost ==
    NoAppendInProgress =>
        \A a \in AppenderIds :
            \A k \in 1..appenders[a].done :
                \E i \in 1..Len(log_files[current_log_path]) :
                    log_files[current_log_path][i] = EntryOf(a, k)

----------------------------------------------------------------------------
(* Voice turns *)

\* the states of a list of events
States(q) == [i \in 1..Len(q) |-> q[i].state]

\* thread j, holding a transcript that is nothing, empty or "null", takes its
\* next step
BadTranscriptStep(j) ==
    /\ jobs[j].pc \in {Got["none"], Got["empty"], Got["null"]}
    /\ jobs'[j] # jobs[j]

\* C11: when the recording that was stopped yields no transcript, an empty
\* one or "null", the thread of that stop ends without handing anything to
\* run_chat_ai, and voice_error is the one event of the voice turn, on the
\* HTTP path and on the push-to-talk path.
C11_BadTranscriptOnlyVoiceError ==
    [][\A j \in Threads :
           BadTranscriptStep(j)
           => /\ jobs'[j] = [kind |-> "ended", pc |-> "done"]
              /\ States(voice_turn') = <<"voice_recording", "voice_error">>]_vars

\* C15: a push-to-talk turn that ends with the reply has published
\* voice_recording, voice_processing, voice_user, voice_response, in that
\* order and each once.
C15_PushToTalkEventOrder ==
    (/\ voice_turn # <<>>
     /\ voice_turn[1] = Event("voice_recording", "zh:recording", "None")
     /\ Last(voice_turn) = Event("voice_response", "reply", "ai_text"))
    => States(voice_turn) = <<"voice_recording", "voice_processing", "voice_user",
                              "voice_response">>

----------------------------------------------------------------------------
(* Failure, rejection and the modes *)

\* capture job j ends in this step without storing a complete result
CaptureFails(j) ==
    /\ jobs[j].kind = "capture" /\ Running(j)
    /\ Ends(j)
    /\ last_complete_result' # j

\* C21: when a capture job fails, the station is Idle afterwards: no project
\* is exposed (GET /api/result answers with the sentinel and a chat would be
\* rejected for want of a vision result) and the job has emitted an error event.
C21_FailedCaptureLeavesIdle ==
    [][\A j \in Threads :
           CaptureFails(j)
           => /\ NoResults'
              /\ last_vision_result' = None
              /\ \E i \in 1..Len(event_queue') : event_queue'[i].state = "error"]_vars

\* C22: a chat thread that finds the slot busy is rejected with a voice_error
\* event and changes nothing else: no Solution call (history and conversation
\* memory unchanged), no log turn, stored results and status unchanged, and
\* the other threads are where they were.
C22_BusyChatRejectedWithoutEffect ==
    [][\A j \in Threads :
           (ChatStartStep(j) /\ is_processing)
           => /\ event_queue' = <<Event("voice_error", "zh:ai-busy-chat", "None")>>
              /\ jobs'[j] = [kind |-> "ended", pc |-> "done"]
              /\ \A k \in Threads \ {j} : jobs'[k] = jobs[k]
              /\ UNCHANGED <<aiVars, agentVars, logVars>>]_vars

\* a chat has just been rejected while another job holds the slot
C22_ChatJustRejectedBusy ==
    /\ event_queue = <<Event("voice_error", "zh:ai-busy-chat", "None")>>
    /\ is_processing
    /\ RunningJobs # {}
    /\ \E j \in Threads : jobs[j].kind = "ended"

\* C23: voice mode exists only inside Result: whenever voice mode is on, a
\* completed project is stored (so the video button cannot start a recording
\* while the station is Idle).
C23_VoiceModeOnlyInResult == in_voice_mode => last_complete_result # None

\* C24: the HTTP control calls behave as the capture button does: POST
\* /api/reset clears the project, turns voice mode and release-required off,
\* starts the refractory window and emits the control Reset event; POST
\* /api/snapshot submits a job only outside the cooldown and the refractory
\* window and only when no project is displayed.
C24_HttpControlsLikeButtons ==
    [][/\ ApiReset
          => /\ NoProject'
             /\ ~in_voice_mode' /\ ~video_release_required'
             /\ reset_elapsed' = 0
             /\ event_queue' = <<Event("control", "Reset", "reset")>>
       /\ (SubmitsCapture /\ ~PressStep)
          => /\ capture_elapsed >= capture_cooldown
             /\ reset_elapsed >= reset_refractory_period
             /\ last_complete_result = None]_vars

\* contour c passes every filter of the detection loop
ValidQuad(c) ==
    /\ Len(c) = 4
    /\ ContourArea2(c) >= 2 * min_contour_area
    /\ isContourConvex(c)
    /\ AspectOk(c)

\* the frame of the current iteration holds a valid outer quadrilateral
FrameHasValidQuad == \E i \in 1..Len(frame_contours) : ValidQuad(frame_contours[i])

\* the detection call of the current iteration returns in this step
DetectionReturns == detecting /\ ~detecting'

\* C25: a detection call on a frame without a valid outer quadrilateral
\* (a frame without contours included) returns and leaves the stored corners
\* as they were; the corners change only in a detection call on a frame that
\* holds a valid outer quadrilateral.
C25_CornersCarriedForward ==
    [][/\ (DetectionReturns /\ ~FrameHasValidQuad) => corners' = corners
       /\ corners' # corners => DetectionReturns /\ FrameHasValidQuad]_vars

\* corners are stored and the detection call on a later frame without a
\* valid quadrilateral has returned
C25_CarriedOverBadFrame ==
    /\ corners # <<>>
    /\ latest_raw_frame /\ ~detecting
    /\ quad_found = "no"

\* the points of q turn clockwise on the screen (y grows downwards) and
\* never the other way
Clockwise(q) == \A i \in 1..4 : Turn2(q, i) > 0

\* C26: the stored corners are always four distinct points, in clockwise
\* convex order, with a side ratio of at most 1.5.
C26_StoredCornersWellFormed ==
    corners # <<>>
        => /\ \A i, k \in 1..4 : i # k => corners[i] # corners[k]
           /\ Clockwise(corners)
           /\ AspectOk(corners)

\* C27: a snapshot taken while no corners are stored goes the way of every
\* snapshot: when the files are written the saved image is the frame as it
\* was read, the only event is the processing notice and a capture job is
\* submitted; when they cannot be written the snapshot fails as it does with
\* corners stored.
C27_CaptureWithoutCorners ==
    [][(/\ corners = <<>>
        /\ event_queue' # <<>>
        /\ event_queue'[1] = Event("processing", "zh:analysing-image", "None"))
           => \/ /\ SubmitsCapture
                 /\ snapshot_image' = "raw"
                 /\ Len(event_queue') = 1
              \/ /\ Len(event_queue') = 2
                 /\ event_queue'[2] = Event("error", "zh:snapshot-failed", "None")
                 /\ UNCHANGED <<jobs, snapshot_image>>]_vars

\* a snapshot without stored corners has just been saved and submitted
C27_RawSnapshotSubmitted ==
    /\ corners = <<>>
    /\ snapshot_image = "raw"
    /\ event_queue = <<Event("processing", "zh:analysing-image", "None")>>
    /\ jobs # <<>> /\ Last(jobs) = [kind |-> "capture", pc |-> "spawned"]

\* a poll of the video button starts the recorder in this step
GpioStartsRecording ==
    /\ ~is_recording /\ is_recording'
    /\ event_queue' = <<Event("voice_recording", "zh:recording", "None")>>

C29_OneStartPerHold ==
    [][GpioStartsRecording => ~hold_started]_vars

\* C30: once a capture job has cleared the memory, the Solution adapter holds
\* no dialogue turn of an earlier project: the prompt history of generate()
\* and the message list of chat() hold only turns made about the solution
\* that is current.
C30_MemoryHoldsCurrentProjectOnly ==
    current_solution # None
        => /\ conversation_history = <<>>
           /\ \A i \in 1..Len(history) : history[i].project = current_solution

----------------------------------------------------------------------------
(* The page buttons *)

\* a page button was polled as pressed in this step
PageStep == bus_sent' # bus_sent

\* C31: a PGUP or PGDN press puts one control event on the queue, with
\* action prev or next, and changes nothing else: the slot flag, the stored
\* results, the voice-mode flags, the cooldown and refractory clocks, the
\* jobs, the logs and the recorder stay as they were.
C31_PageButtonOnlyEmitsControl ==
    [][PageStep
          => /\ \E e \in {Event("control", "Previous", "prev"),
                          Event("control", "Next", "next")} :
                    /\ event_queue' = Append(event_queue, e)
                    /\ latest_status' = e
             /\ UNCHANGED <<is_processing, status_message, last_vision_result,
                            last_solution_result, last_complete_result,
                            in_voice_mode, video_release_required,
                            capture_elapsed, reset_elapsed, jobs, logVars,
                            agentVars, voiceVars, latest_raw_frame>>]_vars

\* a page event was just queued while a project is shown in voice mode
C31_PagedInVoiceMode ==
    /\ in_voice_mode /\ last_complete_result # None
    /\ event_queue # <<>> /\ Last(event_queue) \in PageEvents
    /\ bus_sent # <<>>

----------------------------------------------------------------------------
(* GPIOButton: the interrupt callback and the polling caller *)

\* everything but the button
offButtonVars == <<programVars, ghostVars, busVars, recorderVars, extractVars, shutdownVars, snapshotVars, jobs_at_reset>>

\* The line falls and Hobot.GPIO runs _press_callback on its event thread;
\* still is the level the callback reads back.
FallingEdge(still) ==
    /\ ~line_pressed
    /\ edges_accepted < MaxEdges
    /\ line_pressed' = still
    /\ IF in_cooldown \/ ~still
       THEN UNCHANGED <<pressed_event, in_cooldown, edges_accepted>>
       ELSE /\ in_cooldown' = TRUE
            /\ pressed_event' = TRUE
            /\ edges_accepted' = edges_accepted + 1
    /\ UNCHANGED <<offButtonVars, get_press_pc, edges_reported>>

\* the button is let go
LineUp ==
    /\ line_pressed
    /\ line_pressed' = FALSE
    /\ UNCHANGED <<offButtonVars, pressed_event, in_cooldown, get_press_pc,
                   edges_accepted, edges_reported>>

\* the cooldown since last_press_time runs out
CooldownElapses ==
    /\ in_cooldown
    /\ in_cooldown' = FALSE
    /\ UNCHANGED <<offButtonVars, line_pressed, pressed_event, get_press_pc,
                   edges_accepted, edges_reported>>

\* get_press, line 65: the caller reads _pressed_event and finds it set (a
\* caller that finds it clear returns False, which changes nothing)
GetPressRead ==
    /\ get_press_pc = "idle"
    /\ pressed_event
    /\ get_press_pc' = "clear"
    /\ UNCHANGED <<offButtonVars, line_pressed, pressed_event, in_cooldown,
                   edges_accepted, edges_reported>>

\* get_press, lines 66-67: the caller clears _pressed_event and returns True
GetPressClear ==
    /\ get_press_pc = "clear"
    /\ pressed_event' = FALSE
    /\ get_press_pc' = "idle"
    /\ edges_reported' = edges_reported + 1
    /\ UNCHANGED <<offButtonVars, line_pressed, in_cooldown, edges_accepted>>

NextButton ==
    \/ \E still \in BOOLEAN : FallingEdge(still)
    \/ LineUp
    \/ CooldownElapses
    \/ GetPressRead
    \/ GetPressClear

\* One button, its event thread and its polling caller.
SpecButton == Init /\ [][NextButton]_vars

\* C32: get_press returns True at most once for each accepted edge, and once
\* no press is latched and no poll is under way every accepted edge has
\* been reported.
C32_EveryAcceptedEdgeReportedOnce ==
    /\ edges_reported <= edges_accepted
    /\ (~pressed_event /\ get_press_pc = "idle") => edges_reported = edges_accepted

----------------------------------------------------------------------------
(* Voice2Text: the recorder file *)

\* everything but the recorder
offRecorderVars ==
    <<aiVars, logVars, agentVars, webVars, latest_raw_frame, appVars, jobs,
      video_pressed, video_latch, appendVars, detectVars, ghostVars, busVars,
      buttonVars, extractVars, shutdownVars, snapshotVars, jobs_at_reset>>

\* Voice2Text.start_recording; removed tells whether os.remove succeeded
\* (lines 62-67: an OSError is printed and the start goes on).
start_recording(removed) ==
    /\ recording_no < MaxRecordings
    /\ recorder_file' = IF removed THEN 0 ELSE recorder_file
    /\ IF is_recording
       THEN UNCHANGED <<is_recording, has_frames, recording_no>>
       ELSE /\ is_recording' = TRUE
            /\ has_frames' = FALSE
            /\ recording_no' = recording_no + 1
    /\ UNCHANGED <<offRecorderVars, to_transcribe, transcribed_audio>>

\* _record_loop reads a chunk and appends it to self.frames
ReadChunk ==
    /\ is_recording
    /\ ~has_frames
    /\ has_frames' = TRUE
    /\ UNCHANGED <<offRecorderVars, is_recording, recorder_file, recording_no,
                   to_transcribe, transcribed_audio>>

\* Voice2Text.stop_recording by a caller that found is_recording set and
\* then has the audio transcribed (api_voice_stop, handle_gpio)
stop_recording ==
    /\ is_recording
    /\ is_recording' = FALSE
    /\ recorder_file' = IF has_frames THEN recording_no ELSE recorder_file
    /\ to_transcribe' = to_transcribe \cup {recording_no}
    /\ UNCHANGED <<offRecorderVars, has_frames, recording_no, transcribed_audio>>

\* Voice2Text.transcribe_audio for recording k: it reads whatever the file
\* holds, and returns None when there is no file
transcribe_audio(k) ==
    /\ k \in to_transcribe
    /\ to_transcribe' = to_transcribe \ {k}
    /\ transcribed_audio' = recorder_file
    /\ UNCHANGED <<offRecorderVars, is_recording, recorder_file, has_frames,
                   recording_no>>

NextRecorder ==
    \/ \E removed \in BOOLEAN : start_recording(removed)
    \/ ReadChunk
    \/ stop_recording
    \/ \E k \in 1..MaxRecordings : transcribe_audio(k)

\* The recorder, its reader thread and the transcriptions.
SpecRecorder == Init /\ [][NextRecorder]_vars

\* C33: a transcription never reads audio of an earlier recording: the
\* transcription made for recording k finds no file or the audio of
\* recording k or of a later one.
C33_NoStaleAudio ==
    [][\A k \in 1..MaxRecordings :
          (k \in to_transcribe /\ k \notin to_transcribe')
              => transcribed_audio' = 0 \/ transcribed_audio' >= k]_vars

----------------------------------------------------------------------------
(* JSON extraction in the Solution and Vision adapters *)

\* A response body is a sequence of tokens: "P" a character of prose, "W" a
\* white-space character, "F" the fence ```, "J" the fence ```json, "Q" a
\* double quote, and the two braces.
Tokens == {"P", "W", "F", "J", "Q", "{", "}"}

Texts == UNION {[1..n -> Tokens] : n \in 0..MaxTextLen}

\* re.sub(r"```json\s*", "", text): the opening fence goes with the white
\* space that follows it
RECURSIVE DropWhite(_)
DropWhite(t) == IF t # <<>> /\ Head(t) = "W" THEN DropWhite(Tail(t)) ELSE t

RECURSIVE RemoveJsonFences(_)
RemoveJsonFences(t) ==
    IF t = <<>> THEN <<>>
    ELSE IF Head(t) = "J" THEN RemoveJsonFences(DropWhite(Tail(t)))
    ELSE <<Head(t)>> \o RemoveJsonFences(Tail(t))

\* re.sub(r"```", "", text)
RemoveFences(t) == SelectSeq(t, LAMBDA c : c # "F")

RECURSIVE DropWhiteEnd(_)
DropWhiteEnd(t) ==
    IF t # <<>> /\ t[Len(t)] = "W" THEN DropWhiteEnd(SubSeq(t, 1, Len(t) - 1)) ELSE t

\* str.strip
Strip(t) == DropWhiteEnd(DropWhite(t))

\* both adapters: the fences removed, then the ends stripped
Cleaned(t) == Strip(RemoveFences(RemoveJsonFences(t)))

Places(t, c) == {i \in 1..Len(t) : t[i] = c}

SetMin(S) == CHOOSE i \in S : \A k \in S : i <= k

SetMax(S) == CHOOSE i \in S : \A k \in S : i >= k

\* re.search(r"\{[\s\S]*\}", text) finds something
BraceMatch(t) ==
    /\ Places(t, "{") # {} /\ Places(t, "}") # {}
    /\ SetMin(Places(t, "{")) < SetMax(Places(t, "}"))

\* what it finds: from the first opening brace to the last closing brace
BraceSpan(t) == SubSeq(t, SetMin(Places(t, "{")), SetMax(Places(t, "}")))

\* a string literal: two quotes with no quote between them
IsStringLiteral(t) ==
    /\ Len(t) >= 2 /\ t[1] = "Q" /\ t[Len(t)] = "Q"
    /\ \A i \in 2..(Len(t) - 1) : t[i] # "Q"

\* json.loads(t): the documents of this alphabet are a string literal, the
\* empty object, and an object that holds one string literal (its key and
\* colon are not written); white space may surround the parts. Anything else
\* raises JSONDecodeError ("none").
json_loads(t) ==
    LET s == Strip(t)
        inner == Strip(SubSeq(s, 2, Len(s) - 1))
    IN  IF IsStringLiteral(s) THEN [kind |-> "string", body |-> s]
        ELSE IF Len(s) >= 2 /\ s[1] = "{" /\ s[Len(s)] = "}"
                /\ (inner = <<>> \/ IsStringLiteral(inner))
        THEN [kind |-> "object", body |-> inner]
        ELSE [kind |-> "none", body |-> <<>>]

\* SolutionAgent._extract_json
extract_json(text) ==
    IF BraceMatch(Cleaned(text)) THEN BraceSpan(Cleaned(text)) ELSE Cleaned(text)

\* VisionAgent._extract_json_from_text: the parse of the cleaned text, else
\* the parse of the brace span of the text as it came
extract_json_from_text(text) ==
    IF text = <<>> THEN [kind |-> "none", body |-> <<>>]
    ELSE IF json_loads(Cleaned(text)).kind # "none" THEN json_loads(Cleaned(text))
    ELSE IF BraceMatch(text) THEN json_loads(BraceSpan(text))
    ELSE [kind |-> "none", body |-> <<>>]

offExtractVars == <<programVars, ghostVars, busVars, buttonVars, recorderVars, shutdownVars, snapshotVars, jobs_at_reset>>

\* SolutionAgent.generate, line 58
SolutionExtract ==
    /\ "solution" \notin extracted
    /\ solution_json' = extract_json(response_text)
    /\ extracted' = extracted \cup {"solution"}
    /\ UNCHANGED <<offExtractVars, response_text, vision_json>>

\* VisionAgent.analyze on the content of the completion
VisionExtract ==
    /\ "vision" \notin extracted
    /\ vision_json' = extract_json_from_text(response_text)
    /\ extracted' = extracted \cup {"vision"}
    /\ UNCHANGED <<offExtractVars, response_text, solution_json>>

\* the adapters receive any response body
InitExtract == InitFor(MaxJobs) /\ response_text \in Texts

NextExtract == SolutionExtract \/ VisionExtract

\* Both extractions applied to every response body.
SpecExtract == InitExtract /\ [][NextExtract]_vars

\* white space does not count
Normalized(t) == SelectSeq(t, LAMBDA c : c # "W")

\* the text of an extracted object
ObjectText(v) == <<"{">> \o v.body \o <<"}">>

\* C34: extraction is idempotent: the Solution adapter's extraction applied
\* to the text it extracted gives that text again, and the Vision adapter's
\* extraction applied to the text of the object it extracted gives that
\* object again, white space aside.
C34_ExtractionIdempotent ==
    /\ "solution" \in extracted
          => Normalized(extract_json(solution_json)) = Normalized(solution_json)
    /\ ("vision" \in extracted /\ vision_json.kind = "object")
          => LET again == extract_json_from_text(ObjectText(vision_json))
             IN  /\ again.kind = "object"
                 /\ Normalized(again.body) = Normalized(vision_json.body)

(* Shutdown: POST /api/quit, the end of the main loop, cleanup, the exit *)

\* everything but the shutdown state
offShutdownVars == <<programVars, ghostVars, busVars, buttonVars, recorderVars, extractVars, snapshotVars, jobs_at_reset>>

\* the process has not ended
Alive == main_pc # "exited"

\* a shutdown step is performed
Did(step) == shutdown_trail' = Append(shutdown_trail, step)

\* POST /api/quit: the shutdown thread is started and the answer is returned.
ApiQuit ==
    /\ Alive
    /\ quit_pc = "idle"
    /\ quit_pc' = "stop_loop"
    /\ UNCHANGED <<running, main_pc, cleanup_round, shutdown_trail, offShutdownVars>>

\* shutdown(), after the sleep: app_instance.running = False
QuitStopLoop ==
    /\ Alive
    /\ quit_pc = "stop_loop"
    /\ running' = FALSE
    /\ quit_pc' = "camera"
    /\ UNCHANGED <<main_pc, cleanup_round, shutdown_trail, offShutdownVars>>

\* shutdown(): camera_manager.cleanup()
QuitCamera ==
    /\ Alive
    /\ quit_pc = "camera"
    /\ Did("camera")
    /\ quit_pc' = "voice"
    /\ UNCHANGED <<running, main_pc, cleanup_round, offShutdownVars>>

\* shutdown(): voice_handler.close()
QuitVoice ==
    /\ Alive
    /\ quit_pc = "voice"
    /\ Did("recorder")
    /\ quit_pc' = "server"
    /\ UNCHANGED <<running, main_pc, cleanup_round, offShutdownVars>>

\* shutdown(), last step: request.environ is read in a thread that serves no
\* request.  The read raises (the thread ends, the server goes on), or gives
\* no shutdown function (os._exit(0) ends the process at once), or gives the
\* function, which stops the server.
QuitServer(outcome) ==
    /\ Alive
    /\ quit_pc = "server"
    /\ quit_pc' = "done"
    /\ CASE outcome = "raises" -> UNCHANGED <<main_pc, shutdown_trail>>
         [] outcome = "os_exit" -> main_pc' = "exited" /\ Did("exit")
         [] outcome = "func" -> Did("http") /\ UNCHANGED main_pc
    /\ UNCHANGED <<running, cleanup_round, offShutdownVars>>

\* run(): the loop ends, because running is False or because a frame could
\* not be grabbed (break), and the finally block calls cleanup.
LoopEnds(grabbed) ==
    /\ main_pc = "loop"
    /\ ~running \/ ~grabbed
    /\ main_pc' = "temp"
    /\ cleanup_round' = 1
    /\ UNCHANGED <<running, quit_pc, shutdown_trail, offShutdownVars>>

\* cleanup: the temp directory is removed and made again
CleanupTemp ==
    /\ main_pc = "temp"
    /\ main_pc' = "gpio"
    /\ UNCHANGED <<running, quit_pc, cleanup_round, shutdown_trail, offShutdownVars>>

\* cleanup: GPIO.cleanup()
CleanupGpio ==
    /\ main_pc = "gpio"
    /\ Did("gpio")
    /\ main_pc' = "camera"
    /\ UNCHANGED <<running, quit_pc, cleanup_round, offShutdownVars>>

\* cleanup: camera_manager.cleanup()
CleanupCamera ==
    /\ main_pc = "camera"
    /\ Did("camera")
    /\ main_pc' = "voice"
    /\ UNCHANGED <<running, quit_pc, cleanup_round, offShutdownVars>>

\* cleanup: voice.close()
CleanupVoice ==
    /\ main_pc = "voice"
    /\ Did("recorder")
    /\ main_pc' = "returned"
    /\ UNCHANGED <<running, quit_pc, cleanup_round, offShutdownVars>>

\* the interpreter ends: the hook registered with atexit runs cleanup again
AtExit ==
    /\ main_pc = "returned"
    /\ cleanup_round = 1
    /\ cleanup_round' = 2
    /\ main_pc' = "temp"
    /\ UNCHANGED <<running, quit_pc, shutdown_trail, offShutdownVars>>

\* the process ends, and the daemon thread of the server with it
ProcessExit ==
    /\ main_pc = "returned"
    /\ cleanup_round = 2
    /\ main_pc' = "exited"
    /\ Did("exit")
    /\ UNCHANGED <<running, quit_pc, cleanup_round, offShutdownVars>>

NextShutdown ==
    \/ ApiQuit
    \/ QuitStopLoop
    \/ QuitCamera
    \/ QuitVoice
    \/ \E outcome \in {"raises", "os_exit", "func"} : QuitServer(outcome)
    \/ \E grabbed \in BOOLEAN : LoopEnds(grabbed)
    \/ CleanupTemp
    \/ CleanupGpio
    \/ CleanupCamera
    \/ CleanupVoice
    \/ AtExit
    \/ ProcessExit

\* the shutdown of the station
SpecShutdown == Init /\ [][NextShutdown]_vars

\* where a step was first performed (0: not yet)
FirstDone(step) ==
    IF \E i \in 1..Len(shutdown_trail) : shutdown_trail[i] = step
    THEN CHOOSE i \in 1..Len(shutdown_trail) :
             /\ shutdown_trail[i] = step
             /\ \A j \in 1..(i - 1) : shutdown_trail[j] # step
    ELSE 0

\* the steps of the shutdown in the stated order (no step of the code
\* flushes logs)
ShutdownOrder == <<"http", "camera", "recorder", "gpio", "exit">>

\* C35: once /api/quit has been requested, a shutdown step is performed only
\* after every step that comes before it in the order: stop accepting HTTP,
\* close the camera, stop the recorder, release GPIO, exit.
C35_ShutdownInStatedOrder ==
    quit_pc # "idle" =>
        \A b \in 2..Len(ShutdownOrder) :
            FirstDone(ShutdownOrder[b]) # 0 =>
                /\ FirstDone(ShutdownOrder[b - 1]) # 0
                /\ FirstDone(ShutdownOrder[b - 1]) < FirstDone(ShutdownOrder[b])

(* POST /api/snapshot: the request handler and the thread it starts *)

\* everything but the state of the snapshot endpoint and the busy flag
offSnapshotVars ==
    <<status_message, last_vision_result, last_solution_result,
      last_complete_result, current_log_path, logVars, agentVars, webVars,
      latest_raw_frame, appVars, jobs, voiceVars, appendVars, detectVars,
      ghostVars, busVars, buttonVars, recorderVars, extractVars, shutdownVars,
      jobs_at_reset>>

\* WebManager.set_managers: either manager may be passed as None
set_managers(camera, ai) ==
    /\ ~camera_manager /\ ~ai_manager
    /\ camera_manager' = camera
    /\ ai_manager' = ai
    /\ UNCHANGED <<raw_frame_no, api_answers, snapshot_threads,
                   snapshot_jobs, pipelines_started, pipelines_ended,
                   snapshot_events, is_processing, offSnapshotVars>>

\* CameraManager.get_frame: the main loop stores the next frame in the slot
StoreRawFrame ==
    /\ camera_manager
    /\ raw_frame_no < MaxFrames
    /\ raw_frame_no' = raw_frame_no + 1
    /\ UNCHANGED <<camera_manager, ai_manager, api_answers,
                   snapshot_threads, snapshot_jobs, pipelines_started,
                   pipelines_ended, snapshot_events, is_processing, offSnapshotVars>>

\* a request handler that starts its thread whatever the slot holds
api_snapshot_noFrameCheck ==
    /\ Len(api_answers) < MaxRequests
    /\ IF ~camera_manager \/ ~ai_manager
       THEN api_answers' = Append(api_answers, 503) /\ UNCHANGED snapshot_threads
       ELSE /\ api_answers' = Append(api_answers, 200)
            /\ snapshot_threads' = Append(snapshot_threads, raw_frame_no)
    /\ UNCHANGED <<camera_manager, ai_manager, raw_frame_no, snapshot_jobs,
                   pipelines_started, pipelines_ended, snapshot_events,
                   is_processing, offSnapshotVars>>

\* api_snapshot: 503 without a manager, 400 without a frame; otherwise the
\* frame read from the slot is handed to a new thread and the answer is given.
api_snapshot ==
    /\ Len(api_answers) < MaxRequests
    /\ IF ~camera_manager \/ ~ai_manager
       THEN api_answers' = Append(api_answers, 503) /\ UNCHANGED snapshot_threads
       ELSE IF raw_frame_no = None
            THEN api_answers' = Append(api_answers, 400) /\ UNCHANGED snapshot_threads
            ELSE /\ api_answers' = Append(api_answers, 200)
                 /\ snapshot_threads' = Append(snapshot_threads, raw_frame_no)
    /\ UNCHANGED <<camera_manager, ai_manager, raw_frame_no, snapshot_jobs,
                   pipelines_started, pipelines_ended, snapshot_events,
                   is_processing, offSnapshotVars>>

\* _handle_snapshot_api, one of the started threads: the busy error, or
\* handle_snapshot with the frame it was given (saved: save_snapshot
\* succeeds, or raises)
SnapshotApiThread(t, saved) ==
    /\ t \in 1..Len(snapshot_threads)
    /\ snapshot_threads' = [i \in 1..(Len(snapshot_threads) - 1) |->
                               IF i < t THEN snapshot_threads[i]
                               ELSE snapshot_threads[i + 1]]
    /\ IF is_processing
       THEN /\ saved
            /\ snapshot_events' = Append(snapshot_events, "error")
            /\ UNCHANGED snapshot_jobs
       ELSE IF saved
            THEN /\ snapshot_events' = Append(snapshot_events, "processing")
                 /\ snapshot_jobs' = Append(snapshot_jobs, snapshot_threads[t])
            ELSE /\ snapshot_events' = snapshot_events \o <<"processing", "error">>
                 /\ UNCHANGED snapshot_jobs
    /\ UNCHANGED <<camera_manager, ai_manager, raw_frame_no, api_answers,
                   pipelines_started, pipelines_ended, is_processing,
                   offSnapshotVars>>

\* run_ai_pipeline, first line: a submitted pipeline starts
PipelineStarts ==
    /\ pipelines_started < Len(snapshot_jobs)
    /\ pipelines_started' = pipelines_started + 1
    /\ is_processing' = TRUE
    /\ UNCHANGED <<camera_manager, ai_manager, raw_frame_no, api_answers,
                   snapshot_threads, snapshot_jobs, pipelines_ended,
                   snapshot_events, offSnapshotVars>>

\* run_ai_pipeline, finally block: a started pipeline ends
PipelineEnds ==
    /\ pipelines_ended < pipelines_started
    /\ pipelines_ended' = pipelines_ended + 1
    /\ is_processing' = FALSE
    /\ UNCHANGED <<camera_manager, ai_manager, raw_frame_no, api_answers,
                   snapshot_threads, snapshot_jobs, pipelines_started,
                   snapshot_events, offSnapshotVars>>

NextSnapshotApi ==
    \/ \E camera, ai \in BOOLEAN : set_managers(camera, ai)
    \/ StoreRawFrame
    \/ api_snapshot
    \/ \E t \in 1..MaxRequests, saved \in BOOLEAN : SnapshotApiThread(t, saved)
    \/ PipelineStarts
    \/ PipelineEnds

\* the snapshot endpoint of a WebManager
SpecSnapshotApi == Init /\ [][NextSnapshotApi]_vars

\* a request to /api/snapshot is answered
SnapshotRequest == Len(api_answers') = Len(api_answers) + 1

\* C36: /api/snapshot answers 503 when a manager is absent and 400 when the
\* slot holds no frame, starting no thread, submitting no job and pushing no
\* event; otherwise it answers at once, having handed the frame the slot held
\* at that moment to a new thread, and the job that thread submits is for
\* that frame.
C36_SnapshotApiAnswers ==
    [][/\ SnapshotRequest =>
            /\ UNCHANGED <<snapshot_jobs, snapshot_events, is_processing,
                           pipelines_started>>
            /\ IF ~camera_manager \/ ~ai_manager
               THEN api_answers' = Append(api_answers, 503) /\ UNCHANGED snapshot_threads
               ELSE IF raw_frame_no = None
                    THEN api_answers' = Append(api_answers, 400) /\ UNCHANGED snapshot_threads
                    ELSE /\ api_answers' = Append(api_answers, 200)
                         /\ snapshot_threads' = Append(snapshot_threads, raw_frame_no)
       /\ snapshot_jobs' # snapshot_jobs =>
            \E t \in 1..Len(snapshot_threads) :
                snapshot_jobs' = Append(snapshot_jobs, snapshot_threads[t])]_vars

\* a job was submitted for the frame of its request after the slot had
\* moved on, after requests had been refused with 503 and with 400
C36_JobOfRequestFrame ==
    /\ snapshot_jobs # <<>>
    /\ snapshot_jobs[1] < raw_frame_no
    /\ api_answers = <<503, 400, 200>>

\* C37: while a capture or chat job is running, the busy flag stays set
\* until that job itself ends: no step during which the job goes on running
\* clears the flag.
C37_BusyUntilJobEnds ==
    [][\A j \in 1..Len(jobs) :
          (Running(j) /\ Running(j)' /\ is_busy) => is_busy']_vars

\* C38: a reset is final: a complete result that /api/result serves was
\* stored by a capture job submitted after the last reset.
C38_ResetIsFinal ==
    last_complete_result # None => last_complete_result > jobs_at_reset

\* the captures whose results are stored
StoredCaptures ==
    {last_vision_result, last_solution_result, last_complete_result} \ {None}

\* C39: whenever no job is running, the stored vision, solution and complete
\* results do not come from different captures.
C39_ResultsOfOneCapture ==
    RunningJobs = {} => Cardinality(StoredCaptures) <= 1

(* Push-to-talk with a failing audio driver *)

\* Voice2Text._record_loop, lines 170-173: stream.read raises in the reader
\* thread, which clears the recording flag and ends.
ReaderError ==
    /\ Delivered
    /\ is_recording
    /\ is_recording' = FALSE
    /\ UNCHANGED <<aiVars, logVars, agentVars, webVars, latest_raw_frame, appVars,
                   jobs, video_pressed, video_latch, appendVars, detectVars,
                   ghostVars, auxVars, busVars>>

NextVoiceFault == NextVoice \/ ReaderError

\* the station with its voice routes, the video button and a driver whose
\* reads may fail
SpecVoiceFault == Init /\ [][NextVoiceFault]_vars

\* the threads that still work on a recording
VoiceThreads ==
    {j \in 1..Len(jobs) : jobs[j].kind \in {"after_record", "transcribe", "chat"}}

\* the turn opened by the last voice_recording event has its answer or its
\* error
TurnResolved ==
    \E i \in 1..Len(voice_turn) :
        voice_turn[i].state \in {"voice_response", "voice_error"}

\* C40: a push-to-talk recording is resolved: once the recorder has been
\* started during a hold of the video button, the button is released, the
\* recorder is no longer recording and no thread works on the recording any
\* more, a voice_response or a voice_error event has been emitted for it.
C40_PushToTalkResolved ==
    (/\ hold_started /\ ~video_pressed
     /\ ~is_recording
     /\ VoiceThreads = {}
     /\ Delivered)
        => TurnResolved

====
